---- MODULE Spec2Model ----
(***************************************************************************)
(* App_scrapper (src/app.py): resolution of product identifiers (EANs) to  *)
(* product-page URLs over a set of stores.                                 *)
(*                                                                         *)
(* Spec        one job of POST /start: start -> run_job -> process_eans    *)
(*             (the batch scheduler, its semaphore, its per-store tasks).  *)
(* FairSpec    the job on small batches, with weak fairness of its steps.  *)
(* PollSpec    the job on small batches, with a client polling             *)
(*             GET /progress.                                              *)
(* ClientSpec  the job on small batches, with clients that poll           *)
(*             GET /progress and request GET /download.                    *)
(* CrowdedSpec  the job of one identifier with more stores than permits,   *)
(*             a free permit handed on and every lookup ending.            *)
(* TwoJobsSpec  the job on small batches, with a second job on the same    *)
(*             PROGRESS and RESULTS tables.                                *)
(* ResolverSpec  one call of a lookup handler (lookup_generic or one of    *)
(*             the store-specific ones), the stores' answers drawn from    *)
(*             small sets.                                                 *)
(* ValidatorSpec  one call of _seems_pdp, the url and the platform drawn   *)
(*             from small sets.                                            *)
(* ClassifierSpec  one call of _detect_platform_from_html on a home page.  *)
(* RegistrySpec  calls of _search_recipes_for.                             *)
(* ExtractorSpec  one call of _first_pdp_from_html_generic on a page.      *)
(* NormalizerSpec  sanitize_ean on a cell, then on its own result.         *)
(* RequestSpec  POST /start and POST /upload from the form to the batch,   *)
(*             the job followed through the rows that need no lookup.      *)
(*                                                                         *)
(* Python strings are TLA+ strings; Python dicts are sequences of          *)
(* [k, v] records in insertion order.                                      *)
(***************************************************************************)
EXTENDS Integers, Sequences, FiniteSets, TLC

(***************************************************************************)
(* Bounds of the model.                                                    *)
(***************************************************************************)
\* longest identifier column of the uploaded sheet
MaxEans == 2
\* most (identifier, store) lookups of one batch
MaxLookups == 7
\* most lookups of one batch that time out or raise
MaxFailures == 1
\* most lookups of a batch in FairSpec and PollSpec
MaxSmallLookups == 2
\* most calls of the registry of search recipes with the same arguments
MaxCalls == 2
\* longest identifier column of the second job
MaxOtherEans == 2

(***************************************************************************)
(* Strings.                                                                *)
(***************************************************************************)
StartsWith(s, p) == Len(s) >= Len(p) /\ SubSeq(s, 1, Len(p)) = p

EndsWith(s, p) == Len(s) >= Len(p) /\ SubSeq(s, Len(s) - Len(p) + 1, Len(s)) = p

Contains(s, p) == \E k \in 1..(Len(s) - Len(p) + 1) : SubSeq(s, k, k + Len(p) - 1) = p

Whitespace == {" ", "\t", "\n"}

Digits == {"0", "1", "2", "3", "4", "5", "6", "7", "8", "9"}

RECURSIVE LStrip(_)
LStrip(s) == IF s # "" /\ Head(s) \in Whitespace THEN LStrip(Tail(s)) ELSE s

RECURSIVE RStrip(_)
RStrip(s) ==
    IF s # "" /\ SubSeq(s, Len(s), Len(s)) \in Whitespace
    THEN RStrip(SubSeq(s, 1, Len(s) - 1))
    ELSE s

\* str.strip()
Strip(s) == RStrip(LStrip(s))

\* The decimal digits that are not ASCII (Unicode category Nd).  The text of
\* this module is ASCII: "^" is written for U+0663, ARABIC-INDIC DIGIT THREE.
UnicodeDigits == {"^"}

\* re.sub(r"\D", "", s): on a str pattern \d is every decimal digit of
\* Unicode, so \D leaves those in
RECURSIVE OnlyDigits(_)
OnlyDigits(s) ==
    IF s = "" THEN ""
    ELSE IF Head(s) \in Digits \cup UnicodeDigits THEN Head(s) \o OnlyDigits(Tail(s))
    ELSE OnlyDigits(Tail(s))

(***************************************************************************)
(* Python values of a spreadsheet cell: a string, None, the float NaN      *)
(* pandas gives for an empty cell, an int or a float with an integer value.*)
(***************************************************************************)
PyNone == [t |-> "None"]

PyNaN == [t |-> "nan"]

Str(s) == [t |-> "str", v |-> s]

PyInt(n) == [t |-> "int", v |-> n]

Float(n) == [t |-> "float", v |-> n]

\* str(value)
PyStr(value) ==
    IF value.t = "str" THEN value.v
    ELSE IF value.t = "nan" THEN "nan"
    ELSE IF value.t = "int" THEN ToString(value.v)
    ELSE IF value.t = "float" THEN ToString(value.v) \o ".0"
    ELSE "None"

\* sanitize_ean with r".0$" for r"\.0$"
SanitizeAnyBeforeZero(value) ==
    IF value = PyNone THEN ""
    ELSE LET s  == Strip(PyStr(value))
             s2 == IF Len(s) >= 2 /\ EndsWith(s, "0") THEN SubSeq(s, 1, Len(s) - 2) ELSE s
         IN  OnlyDigits(s2)

\* sanitize_ean
sanitize_ean(value) ==
    IF value = PyNone THEN ""
    ELSE LET s  == Strip(PyStr(value))
             s2 == IF EndsWith(s, ".0") THEN SubSeq(s, 1, Len(s) - 2) ELSE s
         IN  OnlyDigits(s2)

(***************************************************************************)
(* Python dicts, in insertion order.                                       *)
(***************************************************************************)
DictKeys(d) == [n \in 1..Len(d) |-> d[n].k]

DictHas(d, key) == \E n \in 1..Len(d) : d[n].k = key

DictGet(d, key) == d[CHOOSE n \in 1..Len(d) : d[n].k = key].v

\* d[key] = val
DictSet(d, key, val) ==
    IF DictHas(d, key)
    THEN [n \in 1..Len(d) |-> IF d[n].k = key THEN [k |-> key, v |-> val] ELSE d[n]]
    ELSE Append(d, [k |-> key, v |-> val])

\* for (k, v) in zip(keys, vals): d[k] = v
RECURSIVE DictSetAll(_, _, _)
DictSetAll(d, keys, vals) ==
    IF keys = <<>> \/ vals = <<>> THEN d
    ELSE DictSetAll(DictSet(d, Head(keys), Head(vals)), Tail(keys), Tail(vals))

(***************************************************************************)
(* Configuration.                                                          *)
(***************************************************************************)
MAX_PARALLEL_PER_EAN == 6

NOT_FOUND == "no encontrado"

STORES ==
    << [k |-> "carrefour", v |-> "https://www.carrefour.com.ar"],
       [k |-> "jumbo", v |-> "https://www.jumbo.com.ar"],
       [k |-> "disco", v |-> "https://www.disco.com.ar"],
       [k |-> "vea", v |-> "https://www.vea.com.ar"],
       [k |-> "dia", v |-> "https://diaonline.supermercadosdia.com.ar"],
       [k |-> "farmacity", v |-> "https://www.farmacity.com"],
       [k |-> "mas_online", v |-> "https://www.masonline.com.ar"],
       [k |-> "pigmento", v |-> "https://www.perfumeriaspigmento.com.ar"],
       [k |-> "mercado_libre", v |-> "https://listado.mercadolibre.com.ar"],
       [k |-> "club_de_beneficios", v |-> "https://clubdebeneficios.com"],
       [k |-> "central_oeste", v |-> "https://www.centraloeste.com.ar"],
       [k |-> "atomo", v |-> "https://atomoconviene.com/atomo-ecommerce"] >>

\* LOOKUP_HANDLERS
LOOKUP_HANDLERS ==
    << [k |-> "mercado_libre", v |-> "lookup_meli_robusto"],
       [k |-> "club_de_beneficios", v |-> "lookup_club_beneficios"],
       [k |-> "central_oeste", v |-> "lookup_central_oeste"],
       [k |-> "atomo", v |-> "lookup_atomo"] >>

\* (mutant of HandlerFor) no dispatch table: every store is looked up by the
\* generic handler
HandlerForGeneric(store_name) == "lookup_generic"

\* LOOKUP_HANDLERS.get(store_name, lookup_generic)
HandlerFor(store_name) ==
    IF DictHas(LOOKUP_HANDLERS, store_name)
    THEN DictGet(LOOKUP_HANDLERS, store_name)
    ELSE "lookup_generic"

(***************************************************************************)
(* Inputs of a batch: the identifier column of the sheet and the selected  *)
(* stores (predefined ones and stores the user supplied).                  *)
(***************************************************************************)
CellValues == {Str("7790.0"), Str(" 07-9 "), PyNaN}

CellLists == UNION {[1..n -> CellValues] : n \in 1..MaxEans}

Take(s, n) == SubSeq(s, 1, n)

StoreSelections ==
    { <<STORES[1]>>,
      <<STORES[1], STORES[9]>>,
      <<[k |-> "kiosco", v |-> "https://x.test"], [k |-> "EAN", v |-> "https://y.test"]>>,
      Take(STORES, MAX_PARALLEL_PER_EAN + 1) }

\* the job id start draws (uuid4().hex), and an id no job has
JOB == "job1"

NO_JOB == "nojob"

\* the id start draws for a second job
OTHER_JOB == "job2"

JobIds == {JOB, NO_JOB}

VARIABLES
    cells,       \* df[target_col].tolist(): the raw identifier column
    stores_map,  \* the selected stores, slug -> base URL
    pc,          \* where the job is: idle, loop, gather, closing, finished
    eans,        \* run_job's eans: the column after sanitize_ean
    i,           \* process_eans: position of `raw` in eans
    rows,        \* process_eans: rows
    done,        \* process_eans: done
    sem,         \* process_eans: permits the semaphore has left
    tasks,       \* the task_for coroutines of the current gather
    failures,    \* lookups that timed out or raised so far
    PROGRESS,    \* PROGRESS: job id -> {done, total, status}
    RESULTS,     \* RESULTS: job id -> the stored workbook
    answer,      \* the last answer of GET /progress
    call,        \* the lookup handler under way and its arguments
    rpc,         \* where that handler is: idle, home, api1, api2, recipes,
                 \* verify, meli_api, meli_html, club_search, club_verify,
                 \* central, atomo, done
    platform,    \* lookup_generic: platform
    step,        \* lookup_generic: the recipe of the loop; lookup_meli_robusto:
                 \* the (base, path) pair of the loops; lookup_atomo: the
                 \* search url; lookup_club_beneficios: the candidate
    candidate,   \* lookup_generic: u, the candidate under verification
    candidates,  \* lookup_club_beneficios: candidates
    fetched,     \* the URLs the handler has requested, in order
    replies,     \* what each of these requests was answered
    outcome      \* how the handler ended: returned a value, or raised

\* the state of the batch, and that of one lookup handler
svars == <<cells, stores_map, pc, eans, i, rows, done, sem, tasks, failures,
           PROGRESS, RESULTS, answer>>

rvars == <<call, rpc, platform, step, candidate, candidates, fetched, replies, outcome>>

vars == <<svars, rvars>>

NoCall == [handler |-> "", store_name |-> "", base_url |-> "", ean |-> ""]

NoOutcome == [kind |-> "none"]

NoAnswer == [status |-> "none"]

NoDict == <<>>

\* nothing has started: no job, no lookup
Idle ==
    /\ pc = "idle"
    /\ eans = <<>>
    /\ i = 0
    /\ rows = <<>>
    /\ done = 0
    /\ sem = 0
    /\ tasks = <<>>
    /\ failures = 0
    /\ PROGRESS = NoDict
    /\ RESULTS = NoDict
    /\ answer = NoAnswer
    /\ call = NoCall
    /\ rpc = "idle"
    /\ platform = ""
    /\ step = 0
    /\ candidate = ""
    /\ candidates = <<>>
    /\ fetched = <<>>
    /\ replies = <<>>
    /\ outcome = NoOutcome

Init ==
    /\ cells \in CellLists
    /\ stores_map \in StoreSelections
    /\ Len(cells) * Len(stores_map) <= MaxLookups
    /\ Idle

\* process_eans: total = len(eans)
total == Len(eans)

\* process_eans: stores = stores_map or STORES
stores == IF stores_map = <<>> THEN STORES ELSE stores_map

\* (mutant of ProgressCb) the callback reports the batch size as the count
ProgressCbTotal(d, t) ==
    DictSet(PROGRESS, JOB, [done |-> t, total |-> t, status |-> "running"])

\* (mutant of ProgressCb) the callback rebinds PROGRESS to a table that
\* holds the entry of its own job only
ProgressCbAlone(d, t) ==
    <<[k |-> JOB, v |-> [done |-> d, total |-> t, status |-> "running"]]>>

\* run_job._cb
ProgressCb(d, t) == DictSet(PROGRESS, JOB, [done |-> d, total |-> t, status |-> "running"])

\* (mutant of StartJob) the job is registered as finished
StartJobMarkedFinished ==
    /\ pc = "idle"
    /\ eans' = [n \in 1..Len(cells) |-> sanitize_ean(cells[n])]
    /\ PROGRESS' = DictSet(PROGRESS, JOB,
                           [done |-> 0, total |-> Len(cells), status |-> "finished"])
    /\ rows' = <<>>
    /\ sem' = MAX_PARALLEL_PER_EAN
    /\ done' = 0
    /\ i' = 1
    /\ pc' = "loop"
    /\ UNCHANGED rvars
    /\ UNCHANGED <<cells, stores_map, tasks, failures, RESULTS, answer>>

(***************************************************************************)
(* POST /start, after the sheet was read: sanitize the column, register    *)
(* the job and create the run_job task; process_eans sets up its locals.   *)
(***************************************************************************)
StartJob ==
    /\ pc = "idle"
    /\ eans' = [n \in 1..Len(cells) |-> sanitize_ean(cells[n])]
    /\ PROGRESS' = DictSet(PROGRESS, JOB,
                           [done |-> 0, total |-> Len(cells), status |-> "running"])
    /\ rows' = <<>>
    /\ sem' = MAX_PARALLEL_PER_EAN
    /\ done' = 0
    /\ i' = 1
    /\ pc' = "loop"
    /\ UNCHANGED rvars
    /\ UNCHANGED <<cells, stores_map, tasks, failures, RESULTS, answer>>

\* (mutant of EmptyRow) the row with its store cells left empty
EmptyRowBlank(raw, sts) ==
    DictSetAll(<<[k |-> "EAN", v |-> raw]>>, DictKeys(sts),
               [n \in 1..Len(sts) |-> ""])

\* the row of an identifier that sanitizes to ""
EmptyRow(raw, sts) ==
    DictSetAll(<<[k |-> "EAN", v |-> raw]>>, DictKeys(sts),
               [n \in 1..Len(sts) |-> NOT_FOUND])

\* process_eans, `if not ean:` branch
LoopEmpty ==
    /\ pc = "loop"
    /\ i <= total
    /\ sanitize_ean(Str(eans[i])) = ""
    /\ rows' = Append(rows, EmptyRow(eans[i], stores))
    /\ done' = done + 1
    /\ PROGRESS' = ProgressCb(done + 1, total)
    /\ i' = i + 1
    /\ UNCHANGED rvars
    /\ UNCHANGED <<cells, stores_map, pc, eans, sem, tasks, failures, RESULTS, answer>>

\* tasks = [task_for(n, u) for n, u in stores.items()], handed to gather
NewTasks(ident, sts) ==
    [n \in 1..Len(sts) |->
        [ident |-> ident, store |-> sts[n].k, base_url |-> sts[n].v,
         handler |-> HandlerFor(sts[n].k),
         state |-> "waiting", how |-> "none", result |-> ""]]

LoopSpawn ==
    /\ pc = "loop"
    /\ i <= total
    /\ sanitize_ean(Str(eans[i])) # ""
    /\ tasks' = NewTasks(i, stores)
    /\ pc' = "gather"
    /\ UNCHANGED rvars
    /\ UNCHANGED <<cells, stores_map, eans, i, rows, done, sem, failures,
                   PROGRESS, RESULTS, answer>>

\* process_eans: ean, the local the task_for closures read
CurrentEan == sanitize_ean(Str(eans[i]))

\* (mutant of SemFree) the semaphore never blocks
SemFreeAlways == TRUE

\* `async with sem`: acquire returns at once while permits are left
SemFree == sem > 0

\* asyncio runs the gathered tasks in creation order and wakes the waiters of
\* the semaphore first come, first served: the next task to acquire is the
\* first one that has not acquired yet
NextWaiting(j) ==
    /\ tasks[j].state = "waiting"
    /\ \A n \in 1..(j - 1) : tasks[n].state # "waiting"

\* task_for: `async with sem:` entered, the handler called under wait_for
TaskAcquire(j) ==
    /\ pc = "gather"
    /\ NextWaiting(j)
    /\ SemFree
    /\ sem' = sem - 1
    /\ tasks' = [tasks EXCEPT ![j].state = "running"]
    /\ UNCHANGED rvars
    /\ UNCHANGED <<cells, stores_map, pc, eans, i, rows, done, failures,
                   PROGRESS, RESULTS, answer>>

\* what handler(client, store_name, base_url, ean) can return: the sentinel or
\* a product URL of that store for that identifier
HandlerReturns(t, ean) == {NOT_FOUND, t.base_url \o "/" \o ean \o "/p"}

\* (mutant of Settle) no except clause: a failure leaves the exception, not
\* the sentinel, as the task's result
SettleRaising(j, how, value) ==
    /\ tasks' = [tasks EXCEPT ![j].state = "settled", ![j].how = how,
                              ![j].result = IF how = "value" THEN value ELSE how]
    /\ sem' = sem + 1

\* (mutant of Settle) the permit is released by hand after the handler has
\* returned, and not on the except paths
SettleHolding(j, how, value) ==
    /\ tasks' = [tasks EXCEPT ![j].state = "settled", ![j].how = how,
                              ![j].result = value]
    /\ sem' = IF how = "value" THEN sem + 1 ELSE sem

\* task_for leaves `async with sem` with its value
Settle(j, how, value) ==
    /\ tasks' = [tasks EXCEPT ![j].state = "settled", ![j].how = how,
                              ![j].result = value]
    /\ sem' = sem + 1

\* (mutant of HandlerReturn) wait_for does not cancel: a handler whose
\* lookup timed out goes on and hands in its value when it completes
HandlerReturnLate(j) ==
    /\ pc = "gather"
    /\ \/ tasks[j].state = "running"
       \/ tasks[j].state = "settled" /\ tasks[j].how = "timeout"
    /\ \E v \in HandlerReturns(tasks[j], CurrentEan) : Settle(j, "value", v)
    /\ UNCHANGED rvars
    /\ UNCHANGED <<cells, stores_map, pc, eans, i, rows, done, failures,
                   PROGRESS, RESULTS, answer>>

\* task_for: the handler returns within PER_STORE_TIMEOUT
HandlerReturn(j) ==
    /\ pc = "gather"
    /\ tasks[j].state = "running"
    /\ \E v \in HandlerReturns(tasks[j], CurrentEan) : Settle(j, "value", v)
    /\ UNCHANGED rvars
    /\ UNCHANGED <<cells, stores_map, pc, eans, i, rows, done, failures,
                   PROGRESS, RESULTS, answer>>

\* (mutant of HandlerTimeout) wait_for around the whole of task_for: the
\* timeout runs while the lookup waits for its permit
HandlerTimeoutWaiting(j) ==
    /\ pc = "gather"
    /\ tasks[j].state \in {"waiting", "running"}
    /\ failures < MaxFailures
    /\ failures' = failures + 1
    /\ tasks' = [tasks EXCEPT ![j].state = "settled", ![j].how = "timeout",
                              ![j].result = NOT_FOUND]
    /\ sem' = IF tasks[j].state = "running" THEN sem + 1 ELSE sem
    /\ UNCHANGED rvars
    /\ UNCHANGED <<cells, stores_map, pc, eans, i, rows, done,
                   PROGRESS, RESULTS, answer>>

\* task_for: `except asyncio.TimeoutError`
HandlerTimeout(j) ==
    /\ pc = "gather"
    /\ tasks[j].state = "running"
    /\ failures < MaxFailures
    /\ failures' = failures + 1
    /\ Settle(j, "timeout", NOT_FOUND)
    /\ UNCHANGED rvars
    /\ UNCHANGED <<cells, stores_map, pc, eans, i, rows, done,
                   PROGRESS, RESULTS, answer>>

\* task_for: `except Exception`
HandlerFault(j) ==
    /\ pc = "gather"
    /\ tasks[j].state = "running"
    /\ failures < MaxFailures
    /\ failures' = failures + 1
    /\ Settle(j, "fault", NOT_FOUND)
    /\ UNCHANGED rvars
    /\ UNCHANGED <<cells, stores_map, pc, eans, i, rows, done,
                   PROGRESS, RESULTS, answer>>

\* (mutant of GatherComplete) the loop goes on as soon as one task settled,
\* as with asyncio.wait(..., return_when=FIRST_COMPLETED)
GatherFirstCompleted == \E j \in 1..Len(tasks) : tasks[j].state = "settled"

\* (mutant of GatherComplete) gather waits until every task has returned a
\* value of its handler
GatherAllReturned ==
    \A j \in 1..Len(tasks) : tasks[j].state = "settled" /\ tasks[j].how = "value"

\* `await asyncio.gather(*tasks)` returns once every task has
GatherComplete == \A j \in 1..Len(tasks) : tasks[j].state = "settled"

\* row = {"EAN": ean}; for (name, _), url in zip(stores.items(), results)
BuildRow(ean, sts, results) ==
    DictSetAll(<<[k |-> "EAN", v |-> ean]>>, DictKeys(sts), results)

\* process_eans after gather: the row, done += 1, the progress callback
GatherReturn ==
    /\ pc = "gather"
    /\ GatherComplete
    /\ rows' = Append(rows, BuildRow(CurrentEan, stores,
                                     [j \in 1..Len(tasks) |-> tasks[j].result]))
    /\ done' = done + 1
    /\ PROGRESS' = ProgressCb(done + 1, total)
    /\ i' = i + 1
    /\ pc' = "loop"
    /\ UNCHANGED rvars
    /\ UNCHANGED <<cells, stores_map, eans, sem, tasks, failures, RESULTS, answer>>

\* process_eans: the loop is over, `async with httpx.AsyncClient` awaits the
\* client's close
LoopExit ==
    /\ pc = "loop"
    /\ i > total
    /\ pc' = "closing"
    /\ UNCHANGED rvars
    /\ UNCHANGED <<cells, stores_map, eans, i, rows, done, sem, tasks, failures,
                   PROGRESS, RESULTS, answer>>

\* the union of the rows' keys, in order of first appearance
RECURSIVE Columns(_)
Columns(rs) ==
    IF rs = <<>> THEN <<>>
    ELSE LET before == Columns(SubSeq(rs, 1, Len(rs) - 1))
             keys   == DictKeys(rs[Len(rs)])
         IN  before \o SelectSeq(keys, LAMBDA key :
                           \A n \in 1..Len(before) : before[n] # key)

\* pd.DataFrame(rows)
DataFrame(rs) == [columns |-> Columns(rs), data |-> rs]

\* (mutant of RunJobFinish) the job is marked finished and the workbook is
\* stored in a later step
RunJobFinishUnstored ==
    /\ pc = "closing"
    /\ PROGRESS' = DictSet(PROGRESS, JOB,
                           [done |-> Len(eans), total |-> Len(eans),
                            status |-> "finished"])
    /\ pc' = "finished"
    /\ UNCHANGED rvars
    /\ UNCHANGED <<cells, stores_map, eans, i, rows, done, sem, tasks, failures,
                   RESULTS, answer>>

\* process_eans returns; run_job writes the workbook, stores it and marks the
\* job finished (no await in between)
RunJobFinish ==
    /\ pc = "closing"
    /\ RESULTS' = DictSet(RESULTS, JOB, DataFrame(rows))
    /\ PROGRESS' = DictSet(PROGRESS, JOB,
                           [done |-> Len(eans), total |-> Len(eans),
                            status |-> "finished"])
    /\ pc' = "finished"
    /\ UNCHANGED rvars
    /\ UNCHANGED <<cells, stores_map, eans, i, rows, done, sem, tasks, failures,
                   answer>>

\* (mutant of ProgressAnswer) an id without entry is answered like a job
\* that has just started
ProgressAnswerRunning(job_id) ==
    IF DictHas(PROGRESS, job_id)
    THEN DictGet(PROGRESS, job_id)
    ELSE [done |-> 0, total |-> 1, status |-> "running"]

\* GET /progress/{job_id}
ProgressAnswer(job_id) ==
    IF DictHas(PROGRESS, job_id)
    THEN DictGet(PROGRESS, job_id)
    ELSE [done |-> 0, total |-> 1, status |-> "unknown"]

\* a client polls an id it got from /start, or an id that names no job
Poll(job_id) ==
    /\ job_id = JOB => pc # "idle"
    /\ answer' = [id |-> job_id, body |-> ProgressAnswer(job_id),
                  status |-> "answered"]
    /\ UNCHANGED rvars
    /\ UNCHANGED <<cells, stores_map, pc, eans, i, rows, done, sem, tasks,
                   failures, PROGRESS, RESULTS>>

JobStep ==
    \/ StartJob
    \/ LoopEmpty
    \/ LoopSpawn
    \/ \E j \in 1..Len(tasks) : TaskAcquire(j)
    \/ \E j \in 1..Len(tasks) : HandlerReturn(j)
    \/ \E j \in 1..Len(tasks) : HandlerTimeout(j)
    \/ \E j \in 1..Len(tasks) : HandlerFault(j)
    \/ GatherReturn
    \/ LoopExit
    \/ RunJobFinish

Next == JobStep

Spec == Init /\ [][Next]_vars

\* the smaller batches
InitSmall == Init /\ Len(cells) * Len(stores_map) <= MaxSmallLookups

\* the event loop runs every task that is ready, and the network answers or
\* the per-store timeout fires
FairSpec == InitSmall /\ [][Next]_vars /\ WF_vars(Next)

\* one cell, with an identifier or empty, and more selected stores than
\* permits
InitCrowded ==
    /\ Init
    /\ cells \in {<<Str("7790.0")>>, <<PyNaN>>}
    /\ Len(stores_map) > MAX_PARALLEL_PER_EAN

\* the event loop hands a free permit to the lookup that waits for it
Acquires == \E j \in 1..Len(tasks) : TaskAcquire(j)

\* a lookup under way ends: the handler returns or raises, or the timeout
\* of wait_for fires
Settles ==
    \E j \in 1..Len(tasks) : HandlerReturn(j) \/ HandlerTimeout(j) \/ HandlerFault(j)

\* the job of one identifier with more stores than permits: a free permit
\* is handed on, and a lookup under way ends
CrowdedSpec == InitCrowded /\ [][Next]_vars /\ WF_vars(Acquires) /\ WF_vars(Settles)

NextPoll ==
    \/ JobStep
    \/ \E job_id \in JobIds : Poll(job_id)

PollSpec == InitSmall /\ [][NextPoll]_vars

\* (mutant of Download) the download hands out the stored buffer itself and
\* drops it from the table
DownloadOnce(job_id) ==
    /\ job_id = JOB => pc # "idle"
    /\ answer' = IF DictHas(RESULTS, job_id)
                 THEN [id |-> job_id, body |-> DictGet(RESULTS, job_id), status |-> "200"]
                 ELSE [id |-> job_id, body |-> "Aun no esta listo o job inexistente",
                       status |-> "404"]
    /\ RESULTS' = SelectSeq(RESULTS, LAMBDA e : e.k # job_id)
    /\ UNCHANGED rvars
    /\ UNCHANGED <<cells, stores_map, pc, eans, i, rows, done, sem, tasks,
                   failures, PROGRESS>>

\* GET /download/{job_id}: the content of the stored workbook, or 404
download(job_id) ==
    IF DictHas(RESULTS, job_id)
    THEN [id |-> job_id, body |-> DictGet(RESULTS, job_id), status |-> "200"]
    ELSE [id |-> job_id, body |-> "Aun no esta listo o job inexistente", status |-> "404"]

\* a client requests the download of an id it got from /start, or of an id
\* that names no job
Download(job_id) ==
    /\ job_id = JOB => pc # "idle"
    /\ answer' = download(job_id)
    /\ UNCHANGED rvars
    /\ UNCHANGED <<cells, stores_map, pc, eans, i, rows, done, sem, tasks,
                   failures, PROGRESS, RESULTS>>

NextClient ==
    \/ JobStep
    \/ \E job_id \in JobIds : Poll(job_id)
    \/ \E job_id \in JobIds : Download(job_id)

\* the job on small batches, with clients that poll and download
ClientSpec == InitSmall /\ [][NextClient]_vars

\* POST /start of a second sheet, its column of n empty cells, with the
\* default stores: the entry of the new job
OtherStart(n) ==
    /\ ~DictHas(PROGRESS, OTHER_JOB)
    /\ PROGRESS' = DictSet(PROGRESS, OTHER_JOB,
                           [done |-> 0, total |-> n, status |-> "running"])
    /\ UNCHANGED rvars
    /\ UNCHANGED <<cells, stores_map, pc, eans, i, rows, done, sem, tasks,
                   failures, RESULTS, answer>>

\* the entry of the second job
OtherProgress == DictGet(PROGRESS, OTHER_JOB)

\* process_eans of the second job, `if not ean:` branch: its own done and
\* rows, and the callback on its own id
OtherLoopEmpty ==
    /\ DictHas(PROGRESS, OTHER_JOB)
    /\ OtherProgress.status = "running"
    /\ OtherProgress.done < OtherProgress.total
    /\ PROGRESS' = DictSet(PROGRESS, OTHER_JOB,
                           [done |-> OtherProgress.done + 1,
                            total |-> OtherProgress.total, status |-> "running"])
    /\ UNCHANGED rvars
    /\ UNCHANGED <<cells, stores_map, pc, eans, i, rows, done, sem, tasks,
                   failures, RESULTS, answer>>

\* the rows of the second job
OtherRows == [n \in 1..OtherProgress.total |-> EmptyRow("", STORES)]

\* run_job of the second job stores its workbook and marks it finished
OtherFinish ==
    /\ DictHas(PROGRESS, OTHER_JOB)
    /\ OtherProgress.status = "running"
    /\ OtherProgress.done = OtherProgress.total
    /\ RESULTS' = DictSet(RESULTS, OTHER_JOB, DataFrame(OtherRows))
    /\ PROGRESS' = DictSet(PROGRESS, OTHER_JOB,
                           [done |-> OtherProgress.total,
                            total |-> OtherProgress.total, status |-> "finished"])
    /\ UNCHANGED rvars
    /\ UNCHANGED <<cells, stores_map, pc, eans, i, rows, done, sem, tasks,
                   failures, answer>>

NextTwoJobs ==
    \/ JobStep
    \/ \E n \in 1..MaxOtherEans : OtherStart(n)
    \/ OtherLoopEmpty
    \/ OtherFinish

\* two jobs on the same event loop, their steps interleaved
TwoJobsSpec == InitSmall /\ [][NextTwoJobs]_vars

(***************************************************************************)
(* URLs, as urllib.parse reads them.                                       *)
(***************************************************************************)
UPPER == "ABCDEFGHIJKLMNOPQRSTUVWXYZ"

LOWER == "abcdefghijklmnopqrstuvwxyz"

Chars(s) == {SubSeq(s, k, k) : k \in 1..Len(s)}

LowerChar(c) ==
    IF c \in Chars(UPPER)
    THEN LET k == CHOOSE n \in 1..Len(UPPER) : SubSeq(UPPER, n, n) = c
         IN  SubSeq(LOWER, k, k)
    ELSE c

\* str.lower()
RECURSIVE Lower(_)
Lower(s) == IF s = "" THEN "" ELSE LowerChar(Head(s)) \o Lower(Tail(s))

\* str.rstrip("/") and str.lstrip("/")
RECURSIVE RStripSlash(_)
RStripSlash(s) ==
    IF EndsWith(s, "/") THEN RStripSlash(SubSeq(s, 1, Len(s) - 1)) ELSE s

RECURSIVE LStripSlash(_)
LStripSlash(s) == IF StartsWith(s, "/") THEN LStripSlash(Tail(s)) ELSE s

\* position of the first character of s that is in set, 0 if there is none
FirstOf(s, set) ==
    IF \E k \in 1..Len(s) : SubSeq(s, k, k) \in set
    THEN CHOOSE k \in 1..Len(s) :
             /\ SubSeq(s, k, k) \in set
             /\ \A n \in 1..(k - 1) : SubSeq(s, n, n) \notin set
    ELSE 0

SchemeChars == Chars(UPPER) \cup Chars(LOWER) \cup Digits \cup {"+", "-", "."}

\* urlparse, once the scheme and the host are known: the path is what is
\* left of the tail before "?" or "#", at position q
SplitPathAt(scheme, netloc, tail, q) ==
    [scheme |-> scheme,
     netloc |-> netloc,
     path   |-> IF q = 0 THEN tail ELSE SubSeq(tail, 1, q - 1)]

SplitPath(scheme, netloc, tail) ==
    SplitPathAt(scheme, netloc, tail, FirstOf(tail, {"?", "#"}))

\* urlparse, after "//": the host ends at position d, at "/", "?" or "#"
SplitAuthorityAt(scheme, after, d) ==
    IF d = 0 THEN SplitPath(scheme, after, "")
    ELSE SplitPath(scheme, SubSeq(after, 1, d - 1), SubSeq(after, d, Len(after)))

\* urlparse, after the scheme
SplitNetloc(scheme, rest) ==
    IF StartsWith(rest, "//")
    THEN SplitAuthorityAt(scheme, SubSeq(rest, 3, Len(rest)),
                          FirstOf(SubSeq(rest, 3, Len(rest)), {"/", "?", "#"}))
    ELSE SplitPath(scheme, "", rest)

\* urlparse, with c the position of the first ":": what is before it is the
\* scheme if it is a letter followed by scheme characters
UrlparseAt(u, c) ==
    IF /\ c > 1
       /\ Head(u) \in Chars(UPPER) \cup Chars(LOWER)
       /\ Chars(SubSeq(u, 1, c - 1)) \subseteq SchemeChars
    THEN SplitNetloc(Lower(SubSeq(u, 1, c - 1)), SubSeq(u, c + 1, Len(u)))
    ELSE SplitNetloc("", u)

\* urlparse(u): scheme, netloc and path
urlparse(u) == UrlparseAt(u, FirstOf(u, {":"}))

\* urljoin, with b the parsed base
UrljoinAt(b, base, url) ==
    IF url = "" THEN base
    ELSE IF urlparse(url).scheme # "" THEN url
    ELSE IF StartsWith(url, "//") THEN b.scheme \o ":" \o url
    ELSE IF StartsWith(url, "/") THEN b.scheme \o "://" \o b.netloc \o url
    ELSE base \o url

\* urljoin(base, url) for a base that ends in "/" and a url without dot
\* segments: a url with a scheme of its own stands as it is, "//host/path"
\* takes the base's scheme, "/path" the base's scheme and host, and a
\* relative path, a query or a fragment is put after the base
urljoin(base, url) == UrljoinAt(urlparse(base), base, url)

\* _host
_host(u) == urlparse(u).netloc

\* _abs, after href = href.strip()
AbsStripped(base, h) ==
    IF StartsWith(h, "//") THEN "https:" \o h
    ELSE IF StartsWith(h, "http") THEN h
    ELSE urljoin(RStripSlash(base) \o "/", LStripSlash(h))

\* _abs
_abs(base, href) == IF href = "" THEN "" ELSE AbsStripped(base, Strip(href))

(***************************************************************************)
(* Platforms, their signatures, search recipes and product-page shapes.    *)
(***************************************************************************)
VTEX == "vtex"

MAGENTO == "magento"

PRESTASHOP == "prestashop"

SHOPIFY == "shopify"

WOOCOMMERCE == "woocommerce"

TIENDANUBE == "tiendanube"

UNKNOWN == "unknown"

BANNED_FRAGMENTS ==
    <<"/login", "/account", "/customer", "/cart", "/checkout", "/wishlist",
      "/ofertas", "/sale", "/help", "/ayuda">>

\* any(x in s for x in parts)
ContainsAny(s, parts) == \E n \in 1..Len(parts) : Contains(s, parts[n])

\* a variant whose VTEX test does not take the trailing slashes off
PdpPathExact(path, plat) ==
    IF plat = VTEX THEN EndsWith(path, "/p")
    ELSE IF plat = MAGENTO THEN EndsWith(path, ".html")
    ELSE IF plat = PRESTASHOP THEN EndsWith(path, ".html")
    ELSE IF plat = SHOPIFY THEN Contains(path, "/products/")
    ELSE IF plat = WOOCOMMERCE
         THEN Contains(path, "/product/") /\ ~Contains(path, "/product-category/")
    ELSE IF plat = TIENDANUBE
         THEN Contains(path, "/productos/") /\ ~Contains(path, "/colecciones/")
    ELSE \/ ContainsAny(path, <<"/product", "/producto", "/products", "/productos">>)
         \/ EndsWith(path, ".html")

\* _seems_pdp
PdpPath(path, plat) ==
    IF plat = VTEX THEN EndsWith(RStripSlash(path), "/p")
    ELSE IF plat = MAGENTO THEN EndsWith(path, ".html")
    ELSE IF plat = PRESTASHOP THEN EndsWith(path, ".html")
    ELSE IF plat = SHOPIFY THEN Contains(path, "/products/")
    ELSE IF plat = WOOCOMMERCE
         THEN Contains(path, "/product/") /\ ~Contains(path, "/product-category/")
    ELSE IF plat = TIENDANUBE
         THEN Contains(path, "/productos/") /\ ~Contains(path, "/colecciones/")
    ELSE \/ ContainsAny(path, <<"/product", "/producto", "/products", "/productos">>)
         \/ EndsWith(path, ".html")

\* _seems_pdp, after low = (u or "").lower()
SeemsPdpLow(low, plat) ==
    IF ContainsAny(low, BANNED_FRAGMENTS) THEN FALSE
    ELSE PdpPath(urlparse(low).path, plat)

_seems_pdp(u, plat) == SeemsPdpLow(Lower(u), plat)

\* a variant that looks for the Shopify signatures first
DetectShopifyFirst(h) ==
    IF ContainsAny(h, <<"cdn.shopify.com", "shopify">>) THEN SHOPIFY
    ELSE IF ContainsAny(h, <<"vtex", "/api/catalog_system/", "vtexassets">>) THEN VTEX
    ELSE IF ContainsAny(h, <<"magento", "mage-init", "data-mage">>) THEN MAGENTO
    ELSE IF ContainsAny(h, <<"prestashop", "jolisearch">>) THEN PRESTASHOP
    ELSE IF ContainsAny(h, <<"woocommerce", "wp-content", "wc-add-to-cart">>)
         THEN WOOCOMMERCE
    ELSE IF ContainsAny(h, <<"tiendanube", "nuvemshop">>) THEN TIENDANUBE
    ELSE UNKNOWN

\* _detect_platform_from_html
DetectLow(h) ==
    IF ContainsAny(h, <<"vtex", "/api/catalog_system/", "vtexassets">>) THEN VTEX
    ELSE IF ContainsAny(h, <<"magento", "mage-init", "data-mage">>) THEN MAGENTO
    ELSE IF ContainsAny(h, <<"prestashop", "jolisearch">>) THEN PRESTASHOP
    ELSE IF ContainsAny(h, <<"cdn.shopify.com", "shopify">>) THEN SHOPIFY
    ELSE IF ContainsAny(h, <<"woocommerce", "wp-content", "wc-add-to-cart">>)
         THEN WOOCOMMERCE
    ELSE IF ContainsAny(h, <<"tiendanube", "nuvemshop">>) THEN TIENDANUBE
    ELSE UNKNOWN

_detect_platform_from_html(html) == DetectLow(Lower(html))

\* _search_recipes_for(platform), each recipe applied to (base, q)
RecipesAt(plat, b, q) ==
    IF plat = VTEX
    THEN << b \o "/api/catalog_system/pub/products/search/?fq=alternateIds_Ean:" \o q,
            b \o "/api/catalog_system/pub/products/search/?ft=" \o q,
            b \o "/" \o q \o "?_q=" \o q \o "&map=ft" >>
    ELSE IF plat = MAGENTO
    THEN << b \o "/catalogsearch/result/?q=" \o q >>
    ELSE IF plat = PRESTASHOP
    THEN << b \o "/module/ambjolisearch/jolisearch?s=" \o q,
            b \o "/search?controller=search&s=" \o q,
            b \o "/?s=" \o q >>
    ELSE IF plat = SHOPIFY
    THEN << b \o "/search?q=" \o q,
            b \o "/search/products?q=" \o q >>
    ELSE IF plat = WOOCOMMERCE
    THEN << b \o "/?s=" \o q,
            b \o "/?post_type=product&s=" \o q >>
    ELSE IF plat = TIENDANUBE
    THEN << b \o "/buscar?q=" \o q,
            b \o "/search?q=" \o q >>
    ELSE << b \o "/search?q=" \o q,
            b \o "/buscar?q=" \o q,
            b \o "/busca?q=" \o q,
            b \o "/catalogsearch/result/?q=" \o q,
            b \o "/?s=" \o q,
            b \o "/?q=" \o q >>

\* a variant that leaves the trailing slashes on the base url
SearchRecipesUnstripped(plat, base, q) == RecipesAt(plat, base, q)

\* a variant that gives every platform the recipes of VTEX
SearchRecipesOfVtex(plat, base, q) == RecipesAt(VTEX, RStripSlash(base), q)

_search_recipes_for(plat, base, q) == RecipesAt(plat, RStripSlash(base), q)

(***************************************************************************)
(* JSON values (the typed values of PyNone, Str, and these) and what        *)
(* Python makes of them.                                                   *)
(***************************************************************************)
Num(n) == [t |-> "num", v |-> n]

List(items) == [t |-> "list", v |-> items]

Dict(entries) == [t |-> "dict", v |-> entries]

\* bool(x)
Truthy(x) ==
    IF x.t = "None" THEN FALSE
    ELSE IF x.t = "str" THEN x.v # ""
    ELSE IF x.t = "num" THEN x.v # 0
    ELSE IF x.t \in {"list", "dict"} THEN x.v # <<>>
    ELSE TRUE

\* x or y
Or(x, y) == IF Truthy(x) THEN x ELSE y

\* prod.get(key)
Get(prod, key) == IF DictHas(prod.v, key) THEN DictGet(prod.v, key) ELSE PyNone

\* lookup_generic, what it does with the answer of a catalog query: return
\* the link, raise, or go on to the next step
LinkJoined(joined) ==
    IF EndsWith(joined, "/p")
    THEN [kind |-> "return", value |-> joined]
    ELSE [kind |-> "return", value |-> joined \o "/p"]

LinkFromText(link, base) ==
    IF link = "" THEN [kind |-> "continue"]
    ELSE IF StartsWith(link, "http") THEN [kind |-> "return", value |-> link]
    ELSE LinkJoined(base \o "/" \o link)

LinkFromValue(x, base) ==
    IF x.t # "str" THEN [kind |-> "raise"] ELSE LinkFromText(Strip(x.v), base)

LinkFromProduct(prod, base) ==
    IF prod.t # "dict" THEN [kind |-> "raise"]
    ELSE LinkFromValue(Or(Or(Get(prod, "link"), Get(prod, "linkText")), Str("")), base)

LinkFromApi(data, base) ==
    IF ~(data.t = "list" /\ data.v # <<>>) THEN [kind |-> "continue"]
    ELSE LinkFromProduct(Or(data.v[1], Dict(<<>>)), base)

(***************************************************************************)
(* HTML pages, as BeautifulSoup reads them: the canonical link, the first  *)
(* url of a JSON-LD ItemList, the anchors' hrefs, the data-url, data-href  *)
(* or data-link values of the tags that have one, and the rest of the      *)
(* text.  "" stands for an absent canonical link or item list.             *)
(***************************************************************************)
Page(text, canonical, itemlist, anchors, data) ==
    [text |-> text, canonical |-> canonical, itemlist |-> itemlist,
     anchors |-> anchors, data |-> data]

\* the body fetch_text takes for no page: an empty one
NoPage == Page("", "", "", <<>>, <<>>)

RECURSIVE RenderAnchors(_)
RenderAnchors(hrefs) ==
    IF hrefs = <<>> THEN ""
    ELSE "<a href='" \o Head(hrefs) \o "'>x</a>" \o RenderAnchors(Tail(hrefs))

RECURSIVE RenderData(_)
RenderData(values) ==
    IF values = <<>> THEN ""
    ELSE "<div data-url='" \o Head(values) \o "'></div>" \o RenderData(Tail(values))

\* the page as the text that fetch_text returns
Html(page) ==
    page.text
    \o (IF page.canonical = "" THEN ""
        ELSE "<link rel='canonical' href='" \o page.canonical \o "'>")
    \o (IF page.itemlist = "" THEN ""
        ELSE "<script type='application/ld+json'>{\"@type\":\"ItemList\","
             \o "\"itemListElement\":[{\"url\":\"" \o page.itemlist
             \o "\"}]}</script>")
    \o RenderAnchors(page.anchors)
    \o RenderData(page.data)

\* _find_canonical
_find_canonical(page) == Strip(page.canonical)

\* _first_url_from_itemlist
_first_url_from_itemlist(page) == page.itemlist

\* a candidate of _first_pdp_from_html_generic passes
SameHostPdp(u, base, plat) ==
    /\ EndsWith(_host(u), _host(base))
    /\ _seems_pdp(u, plat)

\* _first_pdp_from_html_generic, the loop over the anchors: u is the url of
\* the first href, rest the hrefs after it
RECURSIVE FirstAnchor(_, _, _)
\* a variant that takes the first href whatever it is
AnchorAny(u, rest, base, plat) ==
    IF u # "" THEN u ELSE FirstAnchor(rest, base, plat)

AnchorOr(u, rest, base, plat) ==
    IF u # "" /\ SameHostPdp(u, base, plat) THEN u ELSE FirstAnchor(rest, base, plat)

FirstAnchor(hrefs, base, plat) ==
    IF hrefs = <<>> THEN ""
    ELSE AnchorOr(_abs(base, Head(hrefs)), Tail(hrefs), base, plat)

\* _first_pdp_from_html_generic, with the urls of the canonical link and of
\* the item list
FirstPdpOf(canon, item, page, base, plat) ==
    IF _find_canonical(page) # "" /\ SameHostPdp(canon, base, plat)
    THEN canon
    ELSE IF _first_url_from_itemlist(page) # "" /\ SameHostPdp(item, base, plat)
    THEN item
    ELSE FirstAnchor(page.anchors, base, plat)

\* _first_pdp_from_html_generic; "" stands for None
_first_pdp_from_html_generic(page, base, plat) ==
    FirstPdpOf(_abs(base, _find_canonical(page)),
               _abs(base, _first_url_from_itemlist(page)), page, base, plat)

(***************************************************************************)
(* What the stores answer.  A fetch that fails, times out or has a status  *)
(* other than 200 gives fetch_text no page and fetch_json None.            *)
(***************************************************************************)
HomePages ==
    { NoPage,
      Page("<script src='https://io.vtexassets.com/render.js'></script>", "", "", <<>>, <<>>),
      Page("<link href='https://cdn.shopify.com/s/theme.css'>", "", "", <<>>, <<>>),
      Page("<h1>Kiosco</h1>", "", "", <<"/contacto">>, <<>>) }

Product(link) == Dict(<<[k |-> "productId", v |-> Num(1)], link>>)

ApiAnswers(base) ==
    { PyNone,
      List(<<>>),
      Dict(<<[k |-> "message", v |-> Str("Bad request")]>>),
      List(<<Product([k |-> "link", v |-> Str(base \o "/leche-1/p")])>>),
      List(<<Product([k |-> "link", v |-> Str("https://tienda.myvtex.com/account/leche-1")])>>),
      List(<<Product([k |-> "linkText", v |-> Str("leche-1")])>>),
      List(<<Product([k |-> "linkText", v |-> Str("http-cable")])>>),
      List(<<Product([k |-> "link", v |-> Str(" ")])>>),
      List(<<Product([k |-> "link", v |-> Num(7)])>>),
      List(<<Num(1)>>) }

SearchPages(base) ==
    { NoPage,
      Page("Sin resultados", "", "", <<"/login", "#">>, <<>>),
      Page("1 resultado", "", "", <<"/cart", "/leche-1/p", "/products/leche-1">>, <<>>),
      Page("1 resultado", "/products/leche-2/p", "", <<"/leche-1/p">>, <<>>),
      Page("1 resultado", "/search", "https://cdn" \o _host(base) \o "/products/leche-3/p",
           <<>>, <<>>) }

PdpPages(ean) ==
    { NoPage,
      Page("Leche, EAN " \o ean, "", "", <<>>, <<>>),
      Page("Otro producto", "", "", <<>>, <<>>) }

\* an answer of client.get: the request raised, or it has a status and a
\* body that r.json() parses to `json`; Unparseable is a body it cannot parse
Unparseable == [t |-> "invalid"]

Answer(raised, status, json) == [raised |-> raised, status |-> status, json |-> json]

Results(items) == Dict(<<[k |-> "results", v |-> items]>>)

Item(permalink) == Dict(<<[k |-> "id", v |-> Str("MLA1")], [k |-> "permalink", v |-> permalink]>>)

MeliAnswers ==
    { Answer(TRUE, 0, PyNone),
      Answer(FALSE, 403, Dict(<<[k |-> "message", v |-> Str("forbidden")]>>)),
      Answer(FALSE, 200, Unparseable),
      Answer(FALSE, 200, List(<<>>)),
      Answer(FALSE, 200, Results(List(<<>>))),
      Answer(FALSE, 200, Results(List(<<Num(1)>>))),
      Answer(FALSE, 200, Results(List(<<Item(PyNone)>>))),
      Answer(FALSE, 200, Results(List(<<Item(Str("https://articulo.mercadolibre.com.ar/MLA-1-leche"))>>))),
      Answer(FALSE, 200, Results(List(<<Item(Str("MLA-1-leche"))>>))) }

MeliPages ==
    { NoPage,
      Page("Sin resultados", "", "", <<"/ayuda", " ", "https://www.google.com/MLA-1">>, <<>>),
      Page("1 resultado", "", "",
           <<"/ayuda/MLA-9", "https://articulo.mercadolibre.com.ar/MLA-1-leche">>, <<>>),
      Page("1 resultado", "", "", <<"/p/MLA123">>, <<>>),
      Page("1 resultado", "", "", <<"/ayuda">>, <<"", "/MLA-2-leche">>) }

(***************************************************************************)
(* A lookup handler is called as task_for calls it, with a selected store  *)
(* and an identifier of the column that is not empty.                      *)
(***************************************************************************)
\* where each handler begins
FirstStep(handler) ==
    IF handler = "lookup_generic" THEN "home"
    ELSE IF handler = "lookup_meli_robusto" THEN "meli_api"
    ELSE IF handler = "lookup_club_beneficios" THEN "club_search"
    ELSE IF handler = "lookup_central_oeste" THEN "central"
    ELSE "atomo"

Return(value) == [kind |-> "returned", value |-> value]

Raise == [kind |-> "raised"]

\* lookup_generic: base
base == RStripSlash(call.base_url)

LookupStart ==
    /\ rpc = "idle"
    /\ \E n \in 1..Len(stores), c \in 1..Len(cells) :
          LET s   == stores[n]
              ean == sanitize_ean(cells[c])
          IN  /\ ean # ""
              /\ call' = [handler |-> HandlerFor(s.k), store_name |-> s.k,
                          base_url |-> s.v, ean |-> ean]
              /\ rpc' = FirstStep(HandlerFor(s.k))
    /\ UNCHANGED <<platform, step, candidate, fetched, replies, outcome>>
    /\ UNCHANGED candidates
    /\ UNCHANGED svars

\* lookup_generic: the home page is read and the platform detected
FetchHome ==
    /\ rpc = "home"
    /\ \E page \in HomePages :
          /\ platform' = _detect_platform_from_html(Html(page))
          /\ rpc' = IF platform' = VTEX THEN "api1" ELSE "recipes"
          /\ step' = IF platform' = VTEX THEN step ELSE 1
          /\ replies' = Append(replies, page)
    /\ fetched' = Append(fetched, base)
    /\ UNCHANGED <<call, candidate, outcome>>
    /\ UNCHANGED candidates
    /\ UNCHANGED svars

\* lookup_generic: a catalog query is answered
FetchApi(at, url, next) ==
    /\ rpc = at
    /\ \E data \in ApiAnswers(base) : \E r \in {LinkFromApi(data, base)} :
           /\ replies' = Append(replies, data)
           /\ \/ /\ r.kind = "return"
                 /\ outcome' = Return(r.value)
                 /\ rpc' = "done"
                 /\ step' = step
              \/ /\ r.kind = "raise"
                 /\ outcome' = Raise
                 /\ rpc' = "done"
                 /\ step' = step
              \/ /\ r.kind = "continue"
                 /\ outcome' = outcome
                 /\ rpc' = next
                 /\ step' = IF next = "recipes" THEN 1 ELSE step
    /\ fetched' = Append(fetched, url)
    /\ UNCHANGED <<call, platform, candidate>>
    /\ UNCHANGED candidates
    /\ UNCHANGED svars

FetchApi1 ==
    FetchApi("api1",
             base \o "/api/catalog_system/pub/products/search/?fq=alternateIds_Ean:" \o call.ean,
             "api2")

FetchApi2 ==
    FetchApi("api2",
             base \o "/api/catalog_system/pub/products/search/?ft=" \o call.ean,
             "recipes")

\* a variant that tries the recipes of the platform last to first
RecipesBackwards ==
    [k \in 1..Len(_search_recipes_for(platform, base, call.ean)) |->
        _search_recipes_for(platform, base, call.ean)
            [Len(_search_recipes_for(platform, base, call.ean)) + 1 - k]]

\* lookup_generic: recipes
recipes == _search_recipes_for(platform, base, call.ean)

\* lookup_generic: the page of a search recipe is read; without a candidate
\* the loop goes on, and ends with the sentinel after the last recipe
FetchRecipe ==
    /\ rpc = "recipes"
    /\ step \in 1..Len(recipes)
    /\ \E page \in SearchPages(base) :
          \E u \in {IF Html(page) = "" THEN ""
                    ELSE _first_pdp_from_html_generic(page, base, platform)} :
           /\ replies' = Append(replies, page)
           /\ IF u # ""
              THEN /\ candidate' = u
                   /\ rpc' = "verify"
                   /\ UNCHANGED <<step, outcome>>
              ELSE IF step < Len(recipes)
              THEN /\ step' = step + 1
                   /\ UNCHANGED <<rpc, candidate, outcome>>
              ELSE /\ outcome' = Return(NOT_FOUND)
                   /\ rpc' = "done"
                   /\ UNCHANGED <<step, candidate>>
    /\ fetched' = Append(fetched, recipes[step])
    /\ UNCHANGED <<call, platform>>
    /\ UNCHANGED candidates
    /\ UNCHANGED svars

\* a variant that gives up a candidate whose page does not have the identifier
FetchVerifyStrict ==
    /\ rpc = "verify"
    /\ \E pdp \in PdpPages(call.ean) :
          /\ replies' = Append(replies, pdp)
          /\ \/ /\ Html(pdp) # "" /\ Contains(Html(pdp), call.ean)
                /\ outcome' = Return(candidate)
             \/ /\ ~(Html(pdp) # "" /\ Contains(Html(pdp), call.ean))
                /\ outcome' = Return(NOT_FOUND)
    /\ rpc' = "done"
    /\ fetched' = Append(fetched, candidate)
    /\ UNCHANGED <<call, platform, step, candidate>>
    /\ UNCHANGED candidates
    /\ UNCHANGED svars

\* lookup_generic: the candidate's page is read; the candidate is returned
\* whether the identifier is in it or not
FetchVerify ==
    /\ rpc = "verify"
    /\ \E pdp \in PdpPages(call.ean) :
          /\ replies' = Append(replies, pdp)
          /\ \/ /\ Html(pdp) # "" /\ Contains(Html(pdp), call.ean)
                /\ outcome' = Return(candidate)
             \/ /\ ~(Html(pdp) # "" /\ Contains(Html(pdp), call.ean))
                /\ outcome' = Return(candidate)
    /\ rpc' = "done"
    /\ fetched' = Append(fetched, candidate)
    /\ UNCHANGED <<call, platform, step, candidate>>
    /\ UNCHANGED candidates
    /\ UNCHANGED svars

(***************************************************************************)
(* lookup_meli_robusto.                                                    *)
(***************************************************************************)
MELI == "https://www.mercadolibre.com.ar"

\* what the try block of the API step comes to: the permalink to return,
\* or nothing (any exception is swallowed)
PermalinkOf(results) ==
    IF ~Truthy(results) THEN PyNone
    ELSE IF results.t # "list" THEN PyNone
    ELSE IF results.v[1].t # "dict" THEN PyNone
    ELSE Get(results.v[1], "permalink")

PermalinkFromApi(r) ==
    IF r.raised \/ r.status # 200 \/ r.json = Unparseable THEN PyNone
    ELSE IF r.json.t # "dict" THEN PyNone
    ELSE PermalinkOf(Or(Get(r.json, "results"), List(<<>>)))

\* lookup_meli_robusto: bases and paths, and the url of the k-th turn of
\* the two loops
bases == <<RStripSlash(call.base_url), MELI>>

paths == <<"/" \o call.ean, "/jm/search?as_word=" \o call.ean, "/ofertas?query=" \o call.ean>>

MeliUrl(k) == bases[((k - 1) \div Len(paths)) + 1] \o paths[((k - 1) % Len(paths)) + 1]

LooksLikeParsed(uu) ==
    /\ Contains(uu.netloc, "mercadolibre")
    /\ ContainsAny(uu.path, <<"/MLA-", "/p/MLA", "/item/", "/up/MLA">>)

looks_like_meli_item(u) == LooksLikeParsed(urlparse(u))

\* full, for an href or a data value
MeliFull(val) == IF StartsWith(val, "http") THEN val ELSE urljoin(MELI \o "/", val)

MeliAccepts(full) ==
    /\ looks_like_meli_item(full)
    /\ ~ContainsAny(full, <<"/login", "/account", "/ayuda", "/help", "/seguridad">>)

\* the first value of the sequence that gives an accepted url, "" if none
RECURSIVE MeliFirst(_)
MeliFullOr(full, rest) == IF MeliAccepts(full) THEN full ELSE MeliFirst(rest)

MeliFirst(values) ==
    IF values = <<>> THEN ""
    ELSE IF Head(values) = "" THEN MeliFirst(Tail(values))
    ELSE MeliFullOr(MeliFull(Head(values)), Tail(values))

FirstNonEmpty(a, b) == IF a # "" THEN a ELSE b

StripAll(values) == [n \in 1..Len(values) |-> Strip(values[n])]

\* the anchors of a page, then its data values
MeliFromPage(page) ==
    FirstNonEmpty(MeliFirst(StripAll(page.anchors)), MeliFirst(page.data))

\* lookup_meli_robusto: the public API answers
MeliApi ==
    /\ rpc = "meli_api"
    /\ \E r \in MeliAnswers : \E link \in {PermalinkFromApi(r)} :
           /\ replies' = Append(replies, r)
           /\ IF Truthy(link)
              THEN /\ outcome' = Return(link.v)
                   /\ rpc' = "done"
                   /\ step' = step
              ELSE /\ outcome' = outcome
                   /\ rpc' = "meli_html"
                   /\ step' = 1
    /\ fetched' = Append(fetched,
                         "https://api.mercadolibre.com/sites/MLA/search?q=" \o call.ean \o "&limit=1")
    /\ UNCHANGED <<call, platform, candidate>>
    /\ UNCHANGED candidates
    /\ UNCHANGED svars

\* lookup_meli_robusto: a listing page is read
MeliHtml ==
    /\ rpc = "meli_html"
    /\ step \in 1..(Len(bases) * Len(paths))
    /\ \E page \in MeliPages :
          \E full \in {IF Html(page) = "" THEN "" ELSE MeliFromPage(page)} :
           /\ replies' = Append(replies, page)
           /\ IF full # ""
              THEN /\ outcome' = Return(full)
                   /\ rpc' = "done"
                   /\ step' = step
              ELSE IF step < Len(bases) * Len(paths)
              THEN /\ step' = step + 1
                   /\ UNCHANGED <<rpc, outcome>>
              ELSE /\ outcome' = Return(NOT_FOUND)
                   /\ rpc' = "done"
                   /\ step' = step
    /\ fetched' = Append(fetched, MeliUrl(step))
    /\ UNCHANGED <<call, platform, candidate>>
    /\ UNCHANGED candidates
    /\ UNCHANGED svars

(***************************************************************************)
(* lookup_central_oeste.                                                   *)
(***************************************************************************)
\* a listing page of a Magento store: `links` are the hrefs of its
\* a.product-item-link anchors and `items` those of the anchors inside its
\* product items, both in the order of the page; `anchors` has all of them
MagentoPage(text, links, items, anchors) ==
    [text |-> text, canonical |-> "", itemlist |-> "", anchors |-> anchors,
     data |-> <<>>, links |-> links, items |-> items]

CentralPages ==
    { NoPage,
      MagentoPage("Sin resultados", <<>>, <<>>, <<"/customer/account/login", "/ofertas.html">>),
      MagentoPage("1 resultado", <<"https://www.centraloeste.com.ar/leche-entera-1l.html">>,
                  <<"https://www.centraloeste.com.ar/leche-entera-1l.html">>,
                  <<"/", "https://www.centraloeste.com.ar/leche-entera-1l.html">>),
      MagentoPage("1 resultado", <<"/checkout/cart/add/1.html">>, <<"#", " /yerba-500g.html ">>,
                  <<"/checkout/cart/add/1.html", "#", " /yerba-500g.html ">>),
      MagentoPage("1 resultado", <<>>, <<>>,
                  <<"https://www.otratienda.com.ar/aceite.html", "aceite-900ml.html">>) }

\* p.rsplit("/", 1)[-1]
RECURSIVE Leaf(_)
Leaf(p) ==
    IF ~Contains(p, "/") THEN p ELSE Leaf(SubSeq(p, FirstOf(p, {"/"}) + 1, Len(p)))

BANNED_LEAFS == {"ofertas.html"}

\* lookup_central_oeste.same_host
same_host(u) == EndsWith(urlparse(u).netloc, urlparse(base).netloc)

\* lookup_central_oeste.abs_url
abs_url(href) == IF StartsWith(href, "http") THEN href ELSE urljoin(base \o "/", href)

\* lookup_central_oeste.looks_like_pdp_url
looks_like_pdp_url(u) ==
    /\ ~ContainsAny(Lower(u), <<"/login", "/account", "/cart", "/wishlist",
                                "/customer", "/checkout">>)
    /\ Lower(Leaf(urlparse(u).path)) \notin BANNED_LEAFS
    /\ EndsWith(urlparse(u).path, ".html")

CentralAccepts(u) == same_host(u) /\ looks_like_pdp_url(u)

\* the url of the first a.product-item-link, if it is accepted
CentralLink(links) ==
    IF links # <<>> /\ CentralAccepts(abs_url(Strip(links[1])))
    THEN abs_url(Strip(links[1]))
    ELSE ""

\* the first accepted url of a list of hrefs, "" if there is none
RECURSIVE CentralFirst(_)
CentralOr(href, rest) ==
    IF href # "" /\ ~StartsWith(href, "#") /\ CentralAccepts(abs_url(href))
    THEN abs_url(href)
    ELSE CentralFirst(rest)

CentralFirst(hrefs) ==
    IF hrefs = <<>> THEN "" ELSE CentralOr(Strip(Head(hrefs)), Tail(hrefs))

CentralFromPage(page) ==
    FirstNonEmpty(CentralLink(page.links),
                  FirstNonEmpty(CentralFirst(page.items), CentralFirst(page.anchors)))

\* a variant that hands on the empty result of the extraction
OrEmpty(u) == u

\* the sentinel for no url
OrNotFound(u) == IF u # "" THEN u ELSE NOT_FOUND

\* lookup_central_oeste: the listing of the search is read
lookup_central_oeste ==
    /\ rpc = "central"
    /\ \E page \in CentralPages :
          \E u \in {IF Html(page) = "" THEN "" ELSE CentralFromPage(page)} :
              /\ replies' = Append(replies, page)
              /\ outcome' = Return(OrNotFound(u))
    /\ rpc' = "done"
    /\ fetched' = Append(fetched, base \o "/catalogsearch/result/?q=" \o call.ean)
    /\ UNCHANGED <<call, platform, step, candidate, candidates>>
    /\ UNCHANGED svars

(***************************************************************************)
(* lookup_club_beneficios.                                                 *)
(***************************************************************************)
ClubPages ==
    { NoPage,
      Page("Sin resultados", "", "", <<"/customer/account/login", "/almacen.html", "#top">>, <<>>),
      Page("1 resultado", "", "", <<"/bebidas.html", " /leche-entera-1l.html ">>, <<>>),
      Page("2 resultados", "", "",
           <<"https://www.otratienda.com.ar/te.html",
             "https://clubdebeneficios.com/yerba-500g.html", "aceite-900ml.html">>, <<>>) }

\* the category listings that are no product pages
CLUB_CATEGORIES ==
    {"productos.html", "limpieza.html", "almacen.html", "bebidas.html",
     "perfumeria.html", "ofertas-imperdibles.html"}

\* lookup_club_beneficios: full
ClubFull(href) ==
    IF StartsWith(href, "http") THEN href
    ELSE urljoin(RStripSlash(call.base_url) \o "/", href)

ClubAccepts(full) ==
    /\ Contains(urlparse(full).netloc, "clubdebeneficios.com")
    /\ EndsWith(urlparse(full).path, ".html")
    /\ Leaf(urlparse(full).path) \notin CLUB_CATEGORIES

\* the candidates of a list of hrefs, in the order of the page
RECURSIVE ClubCandidates(_)
ClubKeep(href, rest) ==
    IF href # "" /\ ~StartsWith(href, "#") /\ ClubAccepts(ClubFull(href))
    THEN <<ClubFull(href)>> \o ClubCandidates(rest)
    ELSE ClubCandidates(rest)

ClubCandidates(hrefs) ==
    IF hrefs = <<>> THEN <<>> ELSE ClubKeep(Strip(Head(hrefs)), Tail(hrefs))

\* lookup_club_beneficios: the listing of the search is read and its
\* candidates collected
ClubSearch ==
    /\ rpc = "club_search"
    /\ \E html \in ClubPages :
          \E found \in {IF Html(html) = "" THEN <<>> ELSE ClubCandidates(html.anchors)} :
              /\ replies' = Append(replies, html)
              /\ candidates' = found
              /\ IF found = <<>>
                 THEN /\ outcome' = Return(NOT_FOUND)
                      /\ rpc' = "done"
                 ELSE /\ rpc' = "club_verify"
                      /\ UNCHANGED outcome
    /\ fetched' = Append(fetched, RStripSlash(call.base_url)
                                    \o "/catalogsearch/result/?q=" \o call.ean)
    /\ UNCHANGED <<call, platform, step, candidate>>
    /\ UNCHANGED svars

\* (mutant of ClubVerify) the candidate is returned as soon as its page
\* could be read
ClubVerifyReadable ==
    /\ rpc = "club_verify"
    /\ step < Len(candidates)
    /\ \E page \in PdpPages(call.ean) :
          /\ replies' = Append(replies, page)
          /\ IF Html(page) # ""
             THEN /\ outcome' = Return(candidates[step + 1])
                  /\ rpc' = "done"
             ELSE IF step + 1 < Len(candidates)
             THEN UNCHANGED <<rpc, outcome>>
             ELSE /\ outcome' = Return(NOT_FOUND)
                  /\ rpc' = "done"
    /\ step' = step + 1
    /\ fetched' = Append(fetched, candidates[step + 1])
    /\ UNCHANGED <<call, platform, candidate, candidates>>
    /\ UNCHANGED svars

\* lookup_club_beneficios: the page of the next candidate is read; the
\* candidate is returned only when the identifier is in its page
ClubVerify ==
    /\ rpc = "club_verify"
    /\ step < Len(candidates)
    /\ \E page \in PdpPages(call.ean) :
          /\ replies' = Append(replies, page)
          /\ IF Html(page) # "" /\ Contains(Html(page), call.ean)
             THEN /\ outcome' = Return(candidates[step + 1])
                  /\ rpc' = "done"
             ELSE IF step + 1 < Len(candidates)
             THEN UNCHANGED <<rpc, outcome>>
             ELSE /\ outcome' = Return(NOT_FOUND)
                  /\ rpc' = "done"
    /\ step' = step + 1
    /\ fetched' = Append(fetched, candidates[step + 1])
    /\ UNCHANGED <<call, platform, candidate, candidates>>
    /\ UNCHANGED svars

(***************************************************************************)
(* lookup_atomo.                                                           *)
(***************************************************************************)
AtomoPages ==
    { NoPage,
      Page("Sin resultados", "", "",
           <<"/atomo-ecommerce/login.html", "/atomo-ecommerce/content/4-sobre-nosotros">>, <<>>),
      Page("1 resultado", "", "",
           <<"https://atomoconviene.com/atomo-ecommerce/ofertas.html",
             "https://atomoconviene.com/atomo-ecommerce/lacteos/36315-leche-entera.html?search=1">>,
           <<>>),
      Page("Yerba", " yerba-mate-500g-1204.HTML ", "", <<"/cart.html">>, <<>>),
      Page("1 resultado", "", "",
           <<"https://www.otratienda.com.ar/123-te.html", "//atomoconviene.com/4410/aceite.html">>,
           <<>>) }

\* lookup_atomo: search_urls
search_urls ==
    << base \o "/module/ambjolisearch/jolisearch?s=" \o call.ean,
       base \o "/search?controller=search&s=" \o call.ean,
       base \o "/?s=" \o call.ean >>

\* lookup_atomo: banned
banned ==
    << "/cart", "/login", "/my-account", "/account", "/checkout", "/wishlist",
       "/module/ambjolisearch/jolisearch" >>

\* lookup_atomo: base_host
base_host == urlparse(base).netloc

\* lookup_atomo.normalize
NormalizeStripped(href) ==
    IF StartsWith(href, "//") THEN "https:" \o href
    ELSE IF StartsWith(href, "http") THEN href
    ELSE urljoin(base \o "/", LStripSlash(href))

normalize(href) == IF href = "" THEN "" ELSE NormalizeStripped(Strip(href))

\* the hrefs of a page in the order of its text: the canonical link is
\* rendered before the anchors
Hrefs(page) == (IF page.canonical = "" THEN <<>> ELSE <<page.canonical>>) \o page.anchors

\* the end of the group that href=["']([^"']+?\.html)(?:\?[^"']*)?["'] takes
\* of the attribute value h, looked for from position `at` on, 0 for no match;
\* the match ignores the case
RECURSIVE HtmlEndFrom(_, _)
HtmlEndFrom(h, at) ==
    IF at + 4 > Len(h) THEN 0
    ELSE IF /\ Lower(SubSeq(h, at, at + 4)) = ".html"
            /\ (at + 4 = Len(h) \/ SubSeq(h, at + 5, at + 5) = "?")
    THEN at + 4
    ELSE HtmlEndFrom(h, at + 1)

\* m.group(1), "" when the value does not match
HrefHtml(h) == SubSeq(h, 1, HtmlEndFrom(h, 2))

\* the number of digits of s from position `at` on, and back from position `at`
RECURSIVE DigitRun(_, _)
DigitRun(s, at) ==
    IF at <= Len(s) /\ SubSeq(s, at, at) \in Digits THEN 1 + DigitRun(s, at + 1) ELSE 0

RECURSIVE DigitRunBack(_, _)
DigitRunBack(s, at) ==
    IF at >= 1 /\ SubSeq(s, at, at) \in Digits THEN 1 + DigitRunBack(s, at - 1) ELSE 0

\* re.search(r"/\d{3,}[-/]", path)
IdAfterSlashAt(s, at, n) ==
    /\ SubSeq(s, at, at) = "/"
    /\ n >= 3
    /\ at + n + 1 <= Len(s)
    /\ SubSeq(s, at + n + 1, at + n + 1) \in {"-", "/"}

HasIdAfterSlash(s) == \E at \in 1..Len(s) : IdAfterSlashAt(s, at, DigitRun(s, at + 1))

\* re.search(r"[-/]\d{3,}\.html$", path)
IdBeforeHtmlAt(s, n) ==
    /\ n >= 3
    /\ Len(s) - 5 - n >= 1
    /\ SubSeq(s, Len(s) - 5 - n, Len(s) - 5 - n) \in {"-", "/"}

HasIdBeforeHtml(s) == EndsWith(s, ".html") /\ IdBeforeHtmlAt(s, DigitRunBack(s, Len(s) - 5))

HasProductId(path) == HasIdAfterSlash(path) \/ HasIdBeforeHtml(path)

AtomoPdp(full) ==
    /\ full # ""
    /\ ~ContainsAny(Lower(full), banned)
    /\ (base_host = "" \/ Contains(urlparse(full).netloc, base_host))
    /\ HasProductId(Lower(urlparse(full).path))

\* lookup_atomo.first_pdp_from_html, of the hrefs of the text; "" is None
RECURSIVE first_pdp_from_html(_)
AtomoOr(group, rest) ==
    IF group # "" /\ AtomoPdp(normalize(group)) THEN normalize(group)
    ELSE first_pdp_from_html(rest)

first_pdp_from_html(hrefs) ==
    IF hrefs = <<>> THEN "" ELSE AtomoOr(HrefHtml(Head(hrefs)), Tail(hrefs))

\* the canonical link of the page, checked as the only href of a text
AtomoCanonical(page) ==
    IF page.canonical = "" THEN "" ELSE first_pdp_from_html(<<normalize(page.canonical)>>)

AtomoFromPage(page) ==
    IF Html(page) = "" THEN ""
    ELSE FirstNonEmpty(AtomoCanonical(page), first_pdp_from_html(Hrefs(page)))

\* lookup_atomo: the next search url is read
lookup_atomo ==
    /\ rpc = "atomo"
    /\ step < Len(search_urls)
    /\ \E html \in AtomoPages :
          \E first \in {AtomoFromPage(html)} :
              /\ replies' = Append(replies, html)
              /\ IF first # ""
                 THEN /\ outcome' = Return(first)
                      /\ rpc' = "done"
                 ELSE IF step + 1 < Len(search_urls)
                 THEN UNCHANGED <<rpc, outcome>>
                 ELSE /\ outcome' = Return(NOT_FOUND)
                      /\ rpc' = "done"
    /\ step' = step + 1
    /\ fetched' = Append(fetched, search_urls[step + 1])
    /\ UNCHANGED <<call, platform, candidate, candidates>>
    /\ UNCHANGED svars

NextResolver ==
    \/ LookupStart
    \/ FetchHome
    \/ FetchApi1
    \/ FetchApi2
    \/ FetchRecipe
    \/ FetchVerify
    \/ MeliApi
    \/ MeliHtml
    \/ lookup_central_oeste
    \/ ClubSearch
    \/ ClubVerify
    \/ lookup_atomo

\* one lookup, of a batch of one identifier and one store that has not
\* started: a store of each handler, and a store the user supplied
ResolverSelections ==
    { <<STORES[1]>>, <<STORES[9]>>, <<STORES[10]>>, <<STORES[11]>>, <<STORES[12]>>,
      <<[k |-> "kiosco", v |-> "https://x.test"]>> }

ResolverInit ==
    /\ cells \in CellLists
    /\ Len(cells) = 1
    /\ stores_map \in ResolverSelections
    /\ Idle

ResolverSpec == ResolverInit /\ [][NextResolver]_vars

(***************************************************************************)
(* The validator on its own: _seems_pdp applied to a url and a platform.   *)
(***************************************************************************)
Platforms == {VTEX, MAGENTO, PRESTASHOP, SHOPIFY, WOOCOMMERCE, TIENDANUBE, UNKNOWN}

ValidatorUrls ==
    { "https://store.com/some-product/p",
      "https://store.com/some-product/p/",
      "https://STORE.com/Leche/P?sku=1",
      "https://store.com/leche.html",
      "https://store.com/products/leche",
      "https://store.com/product/leche",
      "https://store.com/product-category/product/leche",
      "https://store.com/productos/leche",
      "https://store.com/colecciones/productos/leche",
      "https://store.com/producto-leche",
      "https://store.com/leche",
      "https://store.com/search?q=/p",
      "https://store.com/account/orders",
      "https://store.com/orders/123/p",
      "https://store.com/Checkout/leche.html",
      "https://store.com/HELP/products/leche/p" }

ValidatorInit ==
    /\ cells = <<PyNaN>>
    /\ stores_map = <<STORES[1]>>
    /\ pc = "idle"
    /\ eans = <<>>
    /\ i = 0
    /\ rows = <<>>
    /\ done = 0
    /\ sem = 0
    /\ tasks = <<>>
    /\ failures = 0
    /\ PROGRESS = NoDict
    /\ RESULTS = NoDict
    /\ answer = NoAnswer
    /\ call = NoCall
    /\ rpc = "validate"
    /\ platform \in Platforms
    /\ step = 0
    /\ candidate \in ValidatorUrls
    /\ candidates = <<>>
    /\ fetched = <<>>
    /\ replies = <<>>
    /\ outcome = NoOutcome

\* _seems_pdp(candidate, platform) is called
Validate ==
    /\ rpc = "validate"
    /\ outcome' = Return(_seems_pdp(candidate, platform))
    /\ rpc' = "done"
    /\ UNCHANGED <<call, platform, step, candidate, candidates, fetched, replies>>
    /\ UNCHANGED svars

ValidatorSpec == ValidatorInit /\ [][Validate]_vars

(***************************************************************************)
(* The classifier on its own: _detect_platform_from_html applied to the    *)
(* text of a page.                                                         *)
(***************************************************************************)
\* no job and no call: the state of the scheduler while a function is
\* looked at on its own
NoJobRuns ==
    /\ cells = <<PyNaN>>
    /\ stores_map = <<STORES[1]>>
    /\ pc = "idle"
    /\ eans = <<>>
    /\ i = 0
    /\ rows = <<>>
    /\ done = 0
    /\ sem = 0
    /\ tasks = <<>>
    /\ failures = 0
    /\ PROGRESS = NoDict
    /\ RESULTS = NoDict
    /\ answer = NoAnswer

\* pieces of page text: signatures of the platforms in some letter case,
\* and text without one
BodyParts ==
    { "", "<h1>Kiosco</h1>", "io.VtexAssets.com", "/API/catalog_system/pub",
      "data-Mage-Init", "PrestaShop", "module/ambjolisearch/jolisearch",
      "cdn.Shopify.com", "/WP-Content/themes", "WooCommerce", "d26lpennugtm8s.cloudfront.net TiendaNube" }

Bodies == {a \o " " \o b : a \in BodyParts, b \in BodyParts} \cup {""}

ClassifierInit ==
    /\ NoJobRuns
    /\ call = NoCall
    /\ rpc = "classify"
    /\ platform = ""
    /\ step = 0
    /\ candidate = ""
    /\ candidates = <<>>
    /\ fetched = <<>>
    /\ \E text \in Bodies : replies = <<Page(text, "", "", <<>>, <<>>)>>
    /\ outcome = NoOutcome

\* _detect_platform_from_html(html) is called with the text of the page
Classify ==
    /\ rpc = "classify"
    /\ platform' = _detect_platform_from_html(Html(replies[1]))
    /\ rpc' = "done"
    /\ UNCHANGED <<call, step, candidate, candidates, fetched, replies, outcome>>
    /\ UNCHANGED svars

ClassifierSpec == ClassifierInit /\ [][Classify]_vars

(***************************************************************************)
(* The registry of search recipes on its own: _search_recipes_for called   *)
(* for a platform tag, each recipe applied to a base url and an            *)
(* identifier.                                                             *)
(***************************************************************************)
\* the tags of the platforms and two that are none
Tags == Platforms \cup {"", "wix"}

RegistryBases ==
    {"https://x.test", "https://x.test/", "https://atomoconviene.com/atomo-ecommerce"}

RegistryInit ==
    /\ NoJobRuns
    /\ \E b \in RegistryBases, q \in {"7790", "079"} :
          call = [handler |-> "", store_name |-> "", base_url |-> b, ean |-> q]
    /\ rpc = "registry"
    /\ platform \in Tags
    /\ step = 0
    /\ candidate = ""
    /\ candidates = <<>>
    /\ fetched = <<>>
    /\ replies = <<>>
    /\ outcome = NoOutcome

\* _search_recipes_for(platform) is called once more and its recipes are
\* applied to the base url and the identifier
Recipes ==
    /\ rpc = "registry"
    /\ step < MaxCalls
    /\ candidates' = _search_recipes_for(platform, call.base_url, call.ean)
    /\ step' = step + 1
    /\ UNCHANGED <<call, rpc, platform, candidate, fetched, replies, outcome>>
    /\ UNCHANGED svars

RegistrySpec == RegistryInit /\ [][Recipes]_vars

(***************************************************************************)
(* The extractor on its own: _first_pdp_from_html_generic applied to a     *)
(* page, the base url of a store and a platform.                           *)
(***************************************************************************)
ExtractorPages ==
    {NoPage} \cup
    {Page("1 resultado", c, l, a, <<>>) :
        c \in {"", "/leche-1/p", " /login ", "https://cdnx.test/leche-2/p",
               "//x.test/leche-3/p"},
        l \in {"", "leche-4/p", "https://otra.test/leche-5/p", "/cart/leche/p"},
        a \in { <<>>,
                <<"/cart", "/leche-6/p", "/leche-7.html">>,
                <<"#", "https://otra.test/a/p", " //www.x.test/leche-8.html ",
                  "/leche-9/p">> }}

ExtractorInit ==
    /\ NoJobRuns
    /\ call = [handler |-> "", store_name |-> "", base_url |-> "https://x.test", ean |-> ""]
    /\ rpc = "extract"
    /\ platform \in {VTEX, MAGENTO}
    /\ step = 0
    /\ candidate = ""
    /\ candidates = <<>>
    /\ fetched = <<>>
    /\ \E page \in ExtractorPages : replies = <<page>>
    /\ outcome = NoOutcome

\* _first_pdp_from_html_generic(html, base, platform) is called
Extract ==
    /\ rpc = "extract"
    /\ candidate' = IF Html(replies[1]) = "" THEN ""
                    ELSE _first_pdp_from_html_generic(replies[1], base, platform)
    /\ rpc' = "done"
    /\ UNCHANGED <<call, platform, step, candidates, fetched, replies, outcome>>
    /\ UNCHANGED svars

ExtractorSpec == ExtractorInit /\ [][Extract]_vars

(***************************************************************************)
(* The normalizer on its own: sanitize_ean applied to a cell, as upload    *)
(* does, and to its own result, as process_eans does.                      *)
(***************************************************************************)
NormalizerInputs ==
    {PyNone, PyNaN, PyInt(7790), PyInt(0), Float(7790), Float(100)} \cup
    {Str(a \o b \o c) :
        a \in {"", " ", "00", "\t-"},
        b \in {"", "779", "7 9", "7^1", "1.0", "e+"},
        c \in {"", ".0", ".0.0", ".0 ", ".00", "0.\n"}}

NormalizerInit ==
    /\ \E value \in NormalizerInputs : cells = <<value>>
    /\ stores_map = <<STORES[1]>>
    /\ pc = "idle"
    /\ eans = <<>>
    /\ i = 0
    /\ rows = <<>>
    /\ done = 0
    /\ sem = 0
    /\ tasks = <<>>
    /\ failures = 0
    /\ PROGRESS = NoDict
    /\ RESULTS = NoDict
    /\ answer = NoAnswer
    /\ call = NoCall
    /\ rpc = "normalize"
    /\ platform = ""
    /\ step = 0
    /\ candidate = ""
    /\ candidates = <<>>
    /\ fetched = <<>>
    /\ replies = <<>>
    /\ outcome = NoOutcome

\* upload: df[ean_col].apply(sanitize_ean)
Normalize ==
    /\ rpc = "normalize"
    /\ candidate' = sanitize_ean(cells[1])
    /\ rpc' = "normalized"
    /\ UNCHANGED <<call, platform, step, candidates, fetched, replies, outcome>>
    /\ UNCHANGED svars

\* process_eans: ean = sanitize_ean(raw)
NormalizeAgain ==
    /\ rpc = "normalized"
    /\ candidates' = <<sanitize_ean(Str(candidate))>>
    /\ rpc' = "done"
    /\ UNCHANGED <<call, platform, step, candidate, fetched, replies, outcome>>
    /\ UNCHANGED svars

NormalizerSpec == NormalizerInit /\ [][Normalize \/ NormalizeAgain]_vars

(***************************************************************************)
(* POST /start and POST /upload, from the form to the batch: the file is   *)
(* checked, the sheet read, the identifier column found, the stores of the *)
(* form merged with the predefined ones and the selection made.            *)
(***************************************************************************)
\* what pd.read_excel(io.BytesIO(raw), dtype=str) gives: it raises, or it
\* returns the columns and the rows of the first sheet
Unreadable == [readable |-> FALSE, columns |-> <<>>, data |-> <<>>]

Sheet(columns, data) == [readable |-> TRUE, columns |-> columns, data |-> data]

Workbooks ==
    { Unreadable,
      Sheet(<<>>, <<>>),
      Sheet(<<"EAN">>, <<>>),
      Sheet(<<"Codigo">>, << <<Str("7790")>> >>),
      Sheet(<<"Nombre", " ean ">>, << <<Str("leche"), Str("-")>>, <<PyNaN, PyNaN>> >>),
      Sheet(<<"EAN">>, << <<PyNaN>>, <<Str("7790.0")>> >>) }

\* slugify(nice) || 'tienda' has given bs, and `existing` are the values of
\* the checkboxes: s = base + '_' + (++i) while existing.has(s)
RECURSIVE UniqueSlugFrom(_, _, _)
UniqueSlugFrom(bs, existing, n) ==
    IF (bs \o "_" \o ToString(n)) \notin existing
    THEN bs \o "_" \o ToString(n)
    ELSE UniqueSlugFrom(bs, existing, n + 1)

ensureUniqueSlug(bs, existing) ==
    IF bs \notin existing THEN bs ELSE UniqueSlugFrom(bs, existing, 2)

\* addManualStore, once for each of the names: the custom_slug inputs of the
\* page
RECURSIVE addManualStore(_, _)
addManualStore(names, added) ==
    IF names = <<>> THEN added
    ELSE addManualStore(Tail(names),
             Append(added,
                    ensureUniqueSlug(Head(names),
                        {STORES[n].k : n \in 1..Len(STORES)}
                            \cup {added[n] : n \in 1..Len(added)})))

\* the custom_slug and custom_url fields of a form: sent by the page, or by
\* another client
CustomStores ==
    { [page |-> TRUE, slug |-> <<>>, url |-> <<>>],
      [page |-> TRUE, slug |-> addManualStore(<<"kiosco", "kiosco", "vea">>, <<>>),
       url |-> <<"https://x.test", "https://y.test", "https://z.test">>],
      [page |-> FALSE, slug |-> <<" kiosco ", "almacen", "EAN">>,
       url |-> <<"x.test/", "", "https://e.test">>],
      [page |-> FALSE, slug |-> <<"kiosco", "kiosco">>,
       url |-> <<"https://x.test", "https://y.test">>],
      [page |-> FALSE, slug |-> <<"vea">>, url |-> <<"https://z.test">>] }

Requests ==
    [ handler : {"start", "upload"},
      filename : {"lista.xlsx", "LISTA.XLSX", "lista.xls", "xlsx"},
      workbook : Workbooks,
      stores : {<<>>, <<"vea">>, <<"nada">>, <<"kiosco", "nada", "carrefour">>},
      custom : CustomStores ]

\* start, upload: the checks without the emptiness test
RejectionUnlessEmpty(req) ==
    IF ~ EndsWith(Lower(req.filename), ".xlsx") THEN "Subi un .xlsx (Excel moderno)"
    ELSE IF ~ req.workbook.readable THEN "No pude leer el Excel"
    ELSE IF \A n \in 1..Len(req.workbook.columns) :
                Lower(Strip(req.workbook.columns[n])) # "ean"
    THEN "No encontre una columna llamada 'EAN'"
    ELSE ""

\* cols_norm = {c.strip(): c for c in df.columns}
cols_norm(df) == DictSetAll(NoDict, StripAll(df.columns), df.columns)

\* next((cols_norm[c] for c in cols_norm if c.lower() == "ean"), None), None
\* written ""
target_col(df) ==
    IF \A n \in 1..Len(cols_norm(df)) : Lower(cols_norm(df)[n].k) # "ean" THEN ""
    ELSE cols_norm(df)[CHOOSE n \in 1..Len(cols_norm(df)) :
                          /\ Lower(cols_norm(df)[n].k) = "ean"
                          /\ \A m \in 1..(n - 1) : Lower(cols_norm(df)[m].k) # "ean"].v

\* start, upload: the detail of the HTTPException(status_code=400) raised,
\* "" when none is
Rejection(req) ==
    IF ~ EndsWith(Lower(req.filename), ".xlsx") THEN "Subi un .xlsx (Excel moderno)"
    ELSE IF ~ req.workbook.readable THEN "No pude leer el Excel"
    ELSE IF req.workbook.columns = <<>> \/ req.workbook.data = <<>>
    THEN "El Excel esta vacio"
    ELSE IF target_col(req.workbook) = "" THEN "No encontre una columna llamada 'EAN'"
    ELSE ""

\* df[target_col].tolist()
Column(df) ==
    [r \in 1..Len(df.data) |->
        df.data[r][CHOOSE n \in 1..Len(df.columns) : df.columns[n] = target_col(df)]]

\* start._norm_url
_norm_url(u) ==
    IF u = "" THEN ""
    ELSE IF StartsWith(Strip(u), "http://") \/ StartsWith(Strip(u), "https://")
    THEN RStripSlash(Strip(u))
    ELSE RStripSlash("https://" \o LStripSlash(Strip(u)))

\* start: custom_map, filled from zip(custom_slug, custom_url)
RECURSIVE custom_map(_, _, _)
custom_map(d, slugs, urls) ==
    IF slugs = <<>> \/ urls = <<>> THEN d
    ELSE custom_map(IF Strip(Head(slugs)) # "" /\ _norm_url(Head(urls)) # ""
                    THEN DictSet(d, Strip(Head(slugs)), _norm_url(Head(urls)))
                    ELSE d,
                    Tail(slugs), Tail(urls))

\* d.update(e)
DictUpdate(d, e) == DictSetAll(d, DictKeys(e), [n \in 1..Len(e) |-> e[n].v])

\* start: all_stores = dict(STORES); all_stores.update(custom_map)
all_stores(req) == DictUpdate(STORES, custom_map(NoDict, req.custom.slug, req.custom.url))

\* the selection without `if not selected: selected = all_stores`
SelectedOrNone(req) ==
    IF req.stores = <<>> THEN all_stores(req)
    ELSE SelectSeq(all_stores(req),
                   LAMBDA e : \E n \in 1..Len(req.stores) : req.stores[n] = e.k)

\* start: selected
selected(req) ==
    IF req.stores = <<>> THEN all_stores(req)
    ELSE IF \A m \in 1..Len(all_stores(req)) :
               \A n \in 1..Len(req.stores) : req.stores[n] # all_stores(req)[m].k
    THEN all_stores(req)
    ELSE SelectSeq(all_stores(req),
                   LAMBDA e : \E n \in 1..Len(req.stores) : req.stores[n] = e.k)

RequestInit ==
    /\ call \in Requests
    /\ rpc = "request"
    /\ cells = <<>>
    /\ stores_map = <<>>
    /\ pc = "idle"
    /\ eans = <<>>
    /\ i = 0
    /\ rows = <<>>
    /\ done = 0
    /\ sem = 0
    /\ tasks = <<>>
    /\ failures = 0
    /\ PROGRESS = NoDict
    /\ RESULTS = NoDict
    /\ answer = NoAnswer
    /\ platform = ""
    /\ step = 0
    /\ candidate = ""
    /\ candidates = <<>>
    /\ fetched = <<>>
    /\ replies = <<>>
    /\ outcome = NoOutcome

\* the handler raises HTTPException(status_code=400, detail=...)
Reject(detail) ==
    /\ answer' = [status |-> "400", detail |-> detail]
    /\ rpc' = "done"
    /\ UNCHANGED <<cells, stores_map, pc, eans, i, rows, done, sem, tasks, failures,
                   PROGRESS, RESULTS>>
    /\ UNCHANGED <<call, platform, step, candidate, candidates, fetched, replies, outcome>>

\* POST /start: the batch is rejected, or the job is registered, the run_job
\* task created (process_eans sets up its locals) and the job id answered
start ==
    /\ rpc = "request"
    /\ call.handler = "start"
    /\ IF Rejection(call) # "" THEN Reject(Rejection(call))
       ELSE /\ cells' = Column(call.workbook)
            /\ stores_map' = selected(call)
            /\ eans' = [n \in 1..Len(cells') |-> sanitize_ean(cells'[n])]
            /\ PROGRESS' = DictSet(PROGRESS, JOB,
                                   [done |-> 0, total |-> Len(cells'), status |-> "running"])
            /\ answer' = [status |-> "200", job_id |-> JOB, total |-> Len(cells')]
            /\ rows' = <<>>
            /\ sem' = MAX_PARALLEL_PER_EAN
            /\ done' = 0
            /\ i' = 1
            /\ pc' = "loop"
            /\ rpc' = "done"
            /\ UNCHANGED <<tasks, failures, RESULTS>>
            /\ UNCHANGED <<call, platform, step, candidate, candidates, fetched,
                           replies, outcome>>

\* POST /upload: the batch is rejected, or the handler awaits process_eans
\* (which it runs itself, without a job and without progress callback)
upload ==
    /\ rpc = "request"
    /\ call.handler = "upload"
    /\ IF Rejection(call) # "" THEN Reject(Rejection(call))
       ELSE /\ cells' = Column(call.workbook)
            /\ stores_map' = selected(call)
            /\ eans' = [n \in 1..Len(cells') |-> sanitize_ean(cells'[n])]
            /\ rows' = <<>>
            /\ sem' = MAX_PARALLEL_PER_EAN
            /\ done' = 0
            /\ i' = 1
            /\ pc' = "upload"
            /\ rpc' = "done"
            /\ UNCHANGED <<tasks, failures, PROGRESS, RESULTS, answer>>
            /\ UNCHANGED <<call, platform, step, candidate, candidates, fetched,
                           replies, outcome>>

\* the job of /start is followed through the rows that need no lookup
NextRequest ==
    \/ start
    \/ upload
    \/ LoopEmpty
    \/ LoopExit
    \/ RunJobFinish

RequestSpec == RequestInit /\ [][NextRequest]_vars

(***************************************************************************)
(* Properties of the batch scheduler.                                      *)
(***************************************************************************)
Slugs == {stores[n].k : n \in 1..Len(stores)}

RunningTasks == {j \in 1..Len(tasks) : tasks[j].state = "running"}

WaitingTasks == {j \in 1..Len(tasks) : tasks[j].state = "waiting"}

FailedTasks == {j \in 1..Len(tasks) : tasks[j].how \in {"timeout", "fault"}}

\* the tasks of the last gather are settled and their row is in rows
RowBuilt == tasks # <<>> /\ pc # "gather" /\ Len(rows) >= tasks[1].ident

RowOfTasks == rows[tasks[1].ident]

\* C1: the table has one row per input identifier, and every row holds the
\* identifier plus exactly one value for each selected store, whatever the
\* store slugs are.
C1_TableShape ==
    /\ \A n \in 1..Len(rows) :
          /\ Len(rows[n]) = Len(stores) + 1
          /\ rows[n][1] = [k |-> "EAN", v |-> eans[n]]
          /\ \A slug \in Slugs : DictHas(rows[n], slug)
    /\ DictHas(RESULTS, JOB) => Len(DictGet(RESULTS, JOB).data) = Len(cells)

\* C2: row n belongs to input identifier n, the store columns of a row are in
\* the order of the requested stores, and the value under store s is the
\* outcome of the lookup of that identifier in s, whatever the order in which
\* the lookups completed.
C2_RowsFollowInput ==
    /\ \A n \in 1..Len(rows) :
          /\ rows[n][1] = [k |-> "EAN", v |-> eans[n]]
          /\ Tail(DictKeys(rows[n])) = DictKeys(stores)
    /\ RowBuilt =>
          \A j \in 1..Len(tasks) :
              /\ DictHas(RowOfTasks, stores[j].k)
              /\ DictGet(RowOfTasks, stores[j].k) = tasks[j].result

\* C3: a lookup that timed out or raised leaves the sentinel in its own cell,
\* every other cell holds what its own handler returned, and the finished
\* batch still has every row.
C3_FaultIsolation ==
    /\ RowBuilt =>
          \A j \in 1..Len(tasks) :
              /\ DictHas(RowOfTasks, stores[j].k)
              /\ j \in FailedTasks => DictGet(RowOfTasks, stores[j].k) = NOT_FOUND
              /\ j \notin FailedTasks =>
                    /\ tasks[j].how = "value"
                    /\ DictGet(RowOfTasks, stores[j].k) = tasks[j].result
                    /\ tasks[j].result \in
                          HandlerReturns(tasks[j], eans[tasks[j].ident])
    /\ pc = "finished" =>
          /\ DictHas(RESULTS, JOB)
          /\ Len(DictGet(RESULTS, JOB).data) = Len(cells)

\* a row built after one lookup failed and another one found a URL
C3_Witness ==
    /\ RowBuilt
    /\ FailedTasks # {}
    /\ \E j \in 1..Len(tasks) :
          /\ tasks[j].how = "value"
          /\ tasks[j].result # NOT_FOUND
          /\ DictGet(RowOfTasks, stores[j].k) = tasks[j].result
    /\ pc = "finished"

\* C4: at most MAX_PARALLEL_PER_EAN store lookups are in flight at any moment.
C4_InFlightBound == Cardinality(RunningTasks) <= MAX_PARALLEL_PER_EAN

\* every permit is taken and a lookup waits for one
C4_Witness ==
    /\ Cardinality(RunningTasks) = MAX_PARALLEL_PER_EAN
    /\ WaitingTasks # {}

\* identifiers after the current one that will be looked up
LaterIdentifiers == {n \in (i + 1)..Len(eans) : sanitize_ean(Str(eans[n])) # ""}

\* a lookup of identifier n can take a permit now
CanStartLookupOf(n) ==
    \E j \in 1..Len(tasks) : tasks[j].ident = n /\ NextWaiting(j) /\ SemFree

\* C5 (as claimed): while lookups of an earlier identifier are unsettled and a
\* permit is free, a lookup of a later identifier can start.
C5_LaterIdentifierCanStart ==
    (pc = "gather" /\ RunningTasks # {} /\ SemFree) =>
        \A n \in LaterIdentifiers : CanStartLookupOf(n)

\* C5 (amended): identifiers are processed one at a time, in input order: every
\* lookup that is waiting or in flight belongs to the identifier whose row
\* comes next, so a lookup of a later identifier starts only after all lookups
\* of the earlier ones have settled; only the stores of one identifier share
\* the permits.
C5_OneIdentifierAtATime ==
    /\ \A j \in 1..Len(tasks) :
          tasks[j].state # "settled" =>
              /\ pc = "gather"
              /\ tasks[j].ident = i
              /\ tasks[j].ident = Len(rows) + 1
    /\ \A n \in LaterIdentifiers : ~CanStartLookupOf(n)

\* two stores of the first identifier are in flight together while a second
\* identifier waits for its turn
C5_Witness ==
    /\ pc = "gather"
    /\ Cardinality(RunningTasks) >= 2
    /\ SemFree
    /\ LaterIdentifiers # {}

\* C6: an identifier that normalizes to "" gets no lookup, and its row stands
\* at its input position with the sentinel under every selected store.
C6_EmptyIdentifierRow ==
    /\ \A j \in 1..Len(tasks) : sanitize_ean(Str(eans[tasks[j].ident])) # ""
    /\ \A n \in 1..Len(rows) :
          sanitize_ean(cells[n]) = "" =>
              /\ \A slug \in Slugs :
                    DictHas(rows[n], slug) /\ DictGet(rows[n], slug) = NOT_FOUND
              /\ \A j \in 1..Len(tasks) : tasks[j].ident # n
    /\ Len(rows) = (IF pc = "idle" THEN 0 ELSE i - 1)

\* an empty identifier after a looked-up one: its row is the second row
C6_Witness ==
    /\ Len(rows) = 2
    /\ sanitize_ean(cells[1]) # ""
    /\ sanitize_ean(cells[2]) = ""
    /\ tasks # <<>>

\* the progress entry of the job
Reported == DictGet(PROGRESS, JOB)

\* every lookup of the first k identifiers has settled and their rows exist
SettledUpTo(k) ==
    /\ Len(rows) >= k
    /\ \A j \in 1..Len(tasks) : tasks[j].ident <= k => tasks[j].state = "settled"

\* what is reported is within total, and every lookup of the identifiers it
\* counts has settled
ReportedOk ==
    DictHas(PROGRESS, JOB) =>
        /\ Reported.done <= Reported.total
        /\ Reported.total = Len(cells)
        /\ Reported.done = Len(rows)
        /\ SettledUpTo(Reported.done)

\* C7: the reported count never decreases, never exceeds total, moves by one
\* after each identifier, and k is reported only once every lookup of the
\* first k identifiers has settled.
C7_ProgressCount ==
    [][/\ ReportedOk'
       /\ DictHas(PROGRESS, JOB) =>
             /\ DictHas(PROGRESS', JOB)
             /\ Reported'.done >= Reported.done
             /\ rows' # rows => Reported'.done = Reported.done + 1
             /\ rows' = rows => Reported'.done = Reported.done]_vars

\* the count of the first of two identifiers was reported
C7_Witness ==
    /\ DictHas(PROGRESS, JOB)
    /\ Reported.done = 1
    /\ Reported.total = 2
    /\ pc = "gather"

JobFinished ==
    /\ DictHas(PROGRESS, JOB)
    /\ Reported.status = "finished"
    /\ Reported.done = Reported.total
    /\ Reported.total = Len(cells)
    /\ DictHas(RESULTS, JOB)

\* a settled lookup stays settled, and a new gather is only ever for a later
\* identifier: no lookup is run a second time
NoRetry ==
    \A j \in 1..Len(tasks) :
        /\ j <= Len(tasks')
        /\ tasks'[j].ident >= tasks[j].ident
        /\ (tasks[j].state = "settled" /\ tasks'[j].ident = tasks[j].ident) =>
               tasks'[j] = tasks[j]
        /\ (tasks[j].state = "running" /\ tasks'[j].ident = tasks[j].ident) =>
               tasks'[j].state # "waiting"

\* C8: every started job eventually is finished with done = total and a
\* stored result, given that ready tasks run and every lookup returns or is
\* cut off by its timeout; no lookup is retried.
C8_JobFinishes == ((pc # "idle") ~> JobFinished) /\ [][NoRetry]_vars

\* a job finished although one of its lookups timed out
C8_Witness ==
    /\ JobFinished
    /\ \E j \in 1..Len(tasks) : tasks[j].how = "timeout"

\* C9 (as claimed): every answer of the progress poll has status running or
\* finished, whatever job identifier is polled.
C9_StatusRunningOrFinished ==
    answer # NoAnswer => answer.body.status \in {"running", "finished"}

\* C9 (amended): a poll of a job that /start has registered is answered with
\* status running or finished, at every moment; a poll of an identifier that
\* names no registered job is answered with status unknown (done 0, total 1).
C9_StatusOfRegisteredJobs ==
    /\ \A job_id \in JobIds :
          IF DictHas(PROGRESS, job_id)
          THEN ProgressAnswer(job_id).status \in {"running", "finished"}
          ELSE ProgressAnswer(job_id) = [done |-> 0, total |-> 1, status |-> "unknown"]
    /\ DictHas(PROGRESS, JOB) <=> pc # "idle"
    /\ ~DictHas(PROGRESS, NO_JOB)
    /\ answer # NoAnswer =>
          IF answer.id = JOB
          THEN answer.body.status \in {"running", "finished"}
          ELSE answer.body = [done |-> 0, total |-> 1, status |-> "unknown"]

\* the running job was polled, and so was an identifier that names no job
C9_Witness ==
    /\ answer # NoAnswer
    /\ answer.id = JOB
    /\ answer.body.status = "running"
    /\ answer.body.done = 1
    /\ ProgressAnswer(NO_JOB).status = "unknown"

(***************************************************************************)
(* Properties of the lookup handlers.                                      *)
(***************************************************************************)
\* an absolute, scheme-qualified URL
IsAbsoluteUrl(u) ==
    /\ urlparse(u).scheme \in {"http", "https"}
    /\ urlparse(u).netloc # ""

\* C10: what a lookup handler returns is the sentinel "no encontrado" or an
\* absolute URL with a scheme and a host.  It does not hold: lookup_generic
\* returns the link of the catalog answer as it is when it starts with
\* "http", and lookup_meli_robusto returns the permalink unexamined.
C10_ReturnsSentinelOrAbsoluteUrl ==
    outcome.kind = "returned" =>
        outcome.value = NOT_FOUND \/ IsAbsoluteUrl(outcome.value)

\* the requests lookup_generic makes when no step gives it a result: the
\* home page, the two catalog queries of a VTEX store, the search recipes
Plan ==
    <<base>>
    \o (IF platform = VTEX
        THEN << base \o "/api/catalog_system/pub/products/search/?fq=alternateIds_Ean:" \o call.ean,
                base \o "/api/catalog_system/pub/products/search/?ft=" \o call.ean >>
        ELSE <<>>)
    \o _search_recipes_for(platform, base, call.ean)

Generic == call.handler = "lookup_generic"

EndedEmpty ==
    \/ outcome.kind = "raised"
    \/ outcome.kind = "returned" /\ outcome.value = NOT_FOUND

\* C11: lookup_generic ends with the sentinel or with an exception only
\* after every step was tried: a failed or malformed answer makes its step
\* produce nothing.  It does not hold: a catalog answer whose first record
\* is not an object, or whose link is not a string, raises out of the
\* handler with the later steps untried.
C11_EndsEmptyOnlyAfterAllSteps ==
    (Generic /\ EndedEmpty) => fetched = Plan

\* a fetch that failed: fetch_text and fetch_json gave None (the request
\* raised, the status was not 200, or there was no body), or the request
\* of lookup_meli_robusto raised or was answered with another status than 200
FetchFailed(r) ==
    \/ r = NoPage
    \/ r = PyNone
    \/ "raised" \in DOMAIN r /\ (r.raised \/ r.status # 200)

AllFetchesFailed == \A k \in 1..Len(replies) : FetchFailed(replies[k])

\* C12: when every fetch that a handler issued has failed (the home page,
\* the structured queries, every search), the handler, generic or
\* store-specific, returns the not-found sentinel.
C12_AllFetchesFailedGivesSentinel ==
    (rpc = "done" /\ AllFetchesFailed) => outcome = Return(NOT_FOUND)

C12_Witness ==
    /\ rpc = "done"
    /\ call.handler = "lookup_generic"
    /\ Len(replies) = 1 + Len(recipes)
    /\ AllFetchesFailed
    /\ outcome = Return(NOT_FOUND)

\* the anchors of a page that pass validation for the detected platform
ValidAnchors(page) ==
    {k \in 1..Len(page.anchors) :
        /\ _abs(base, page.anchors[k]) # ""
        /\ SameHostPdp(_abs(base, page.anchors[k]), base, platform)}

TheValidAnchor(page) == page.anchors[CHOOSE k \in ValidAnchors(page) : TRUE]

\* the page gives _first_pdp_from_html_generic nothing
YieldsNothing(page) ==
    Html(page) = "" \/ _first_pdp_from_html_generic(page, base, platform) = ""

\* the canonical link or the first ItemList entry of the page passes validation
CanonicalOrItemPasses(page) ==
    \/ /\ _find_canonical(page) # ""
       /\ SameHostPdp(_abs(base, _find_canonical(page)), base, platform)
    \/ /\ _first_url_from_itemlist(page) # ""
       /\ SameHostPdp(_abs(base, _first_url_from_itemlist(page)), base, platform)

\* lookup_generic has ended for a VTEX store whose two structured queries
\* answered an empty list, and reply j is the first search page that has
\* something: it has exactly one anchor that passes validation
VtexOneAnchorAt(j) ==
    /\ Generic /\ platform = VTEX /\ rpc = "done"
    /\ replies[2] = List(<<>>) /\ replies[3] = List(<<>>)
    /\ \A k \in 4..(j - 1) : YieldsNothing(replies[k])
    /\ Html(replies[j]) # ""
    /\ Cardinality(ValidAnchors(replies[j])) = 1

IsPrefix(s, t) == Len(s) <= Len(t) /\ s = SubSeq(t, 1, Len(s))

\* the requests of lookup_generic for its steps: all but the verification
\* request for the candidate, which is the last one of a call that found one
StepFetches ==
    IF rpc = "done" /\ candidate # "" THEN SubSeq(fetched, 1, Len(fetched) - 1) ELSE fetched

\* the answer to request k gave the resolver no result: a catalog answer
\* after which it goes on, or a search page without a candidate
StepGaveNothing(k) ==
    IF platform = VTEX /\ k \in {2, 3}
    THEN LinkFromApi(replies[k], base).kind = "continue"
    ELSE YieldsNothing(replies[k])

\* C14: for one identifier and store lookup_generic goes through its steps
\* in a fixed order (after the home page: the exact-match catalog query, the
\* free-text catalog query, then the search recipes of the detected platform
\* in list order), and it requests a step only when no earlier step has
\* given it a result.
C14_FixedOrderStopAtFirst ==
    Generic =>
        /\ IsPrefix(StepFetches, Plan)
        /\ \A k \in 2..(Len(StepFetches) - 1) : StepGaveNothing(k)

C14_Witness ==
    /\ Generic /\ platform = VTEX /\ rpc = "done"
    /\ Len(fetched) = 3
    /\ replies[2] = List(<<>>)
    /\ outcome = Return(base \o "/leche-1/p")
    /\ Len(Plan) = 6

\* the value of the `link` field of a record, of `linkText` without one
LinkValue(prod) ==
    IF DictHas(prod.v, "link") THEN Get(prod, "link") ELSE Get(prod, "linkText")

\* a catalog answer that is a non-empty list whose first record has a
\* non-blank text as its link
HasLink(data) ==
    /\ data.t = "list" /\ data.v # <<>>
    /\ data.v[1].t = "dict"
    /\ LinkValue(data.v[1]).t = "str"
    /\ Strip(LinkValue(data.v[1]).v) # ""

\* the url the link is to become: the value when it is absolute, else the
\* base url, "/" and the value, with "/p" after a value that does not end so
ComposedLink(value) ==
    IF IsAbsoluteUrl(value) THEN value
    ELSE base \o "/" \o value \o (IF EndsWith(value, "/p") THEN "" ELSE "/p")

\* C15: when a catalog query of lookup_generic is answered with a non-empty
\* list, the handler returns the link (without one, the linkText) of the
\* first record: as it is when it is absolute, else as base url + "/" +
\* value, with "/p" appended exactly when the value does not end in "/p".
\* It does not hold: a value that starts with "http" is taken for absolute.
C15_ReturnsComposedLink ==
    \A k \in {2, 3} :
        (Generic /\ platform = VTEX /\ k <= Len(replies) /\ HasLink(replies[k]))
            => /\ rpc = "done"
               /\ outcome = Return(ComposedLink(Strip(LinkValue(replies[k].v[1]).v)))

Found == outcome.kind = "returned" /\ outcome.value # NOT_FOUND

\* C16: every url that lookup_generic returns as found has passed the
\* validator for the platform detected for the store: no banned fragment,
\* the store's host, the platform's product shape.  It does not hold: the
\* link of a catalog answer is returned without being validated.
C16_FoundUrlPassedValidator ==
    (Generic /\ Found) => SameHostPdp(outcome.value, base, platform)

\* the page that was fetched to verify a candidate has the identifier
Verified(page) == Html(page) # "" /\ Contains(Html(page), call.ean)

Club == call.handler = "lookup_club_beneficios"

\* lookup_generic has fetched the page of its candidate: it is the last reply
GenericVerifiedAt == Generic /\ rpc = "done" /\ candidate # ""

\* C17, as stated: when a handler has fetched the page of a validated
\* candidate to verify it and the identifier is not in the body (or the
\* fetch failed), it does not return that candidate.
C17_UnverifiedNotReturned ==
    /\ (GenericVerifiedAt /\ ~Verified(replies[Len(replies)]))
          => outcome # Return(candidate)
    /\ \A k \in 1..step :
          (Club /\ ~Verified(replies[k + 1])) => outcome # Return(candidates[k])

\* C17, amended: lookup_generic returns its candidate whatever the
\* verification fetch gave; lookup_club_beneficios returns a candidate only
\* when the identifier is in its page, and after a candidate that is not
\* verified it goes on to the next one, or returns the sentinel after the last.
C17_OnlyClubVerifies ==
    /\ GenericVerifiedAt => outcome = Return(candidate)
    /\ \A k \in 1..step :
          Club =>
            IF Verified(replies[k + 1])
            THEN k = step /\ rpc = "done" /\ outcome = Return(candidates[k])
            ELSE /\ outcome # Return(candidates[k])
                 /\ (k = step /\ rpc = "done")
                       => (k = Len(candidates) /\ outcome = Return(NOT_FOUND))

C17_Witness ==
    /\ GenericVerifiedAt
    /\ ~Verified(replies[Len(replies)])
    /\ outcome = Return(candidate)

\* the host of u is the host of the store's base url or a subdomain of it
OnStoreHost(u) ==
    \/ _host(u) = _host(base)
    \/ EndsWith(_host(u), "." \o _host(base))

\* C20: a candidate that lookup_generic has taken from a search page is on
\* the host of the store's base url or on a subdomain of it; a url of
\* another host is not accepted whatever its path.  It does not hold: the
\* test is that the candidate's host ends with the base host.
C20_CandidateOnStoreHost ==
    (Generic /\ candidate # "") => OnStoreHost(candidate)

(***************************************************************************)
(* Properties of the validator.                                            *)
(***************************************************************************)
\* the path of the candidate, as the validator reads it: in lower case
CandidatePath == urlparse(Lower(candidate)).path

\* the shape of a product page of each platform
ProductShape(path) ==
    CASE platform = VTEX -> EndsWith(RStripSlash(path), "/p")
      [] platform \in {MAGENTO, PRESTASHOP} -> EndsWith(path, ".html")
      [] platform = SHOPIFY -> Contains(path, "/products/")
      [] platform = WOOCOMMERCE ->
            Contains(path, "/product/") /\ ~Contains(path, "/product-category/")
      [] platform = TIENDANUBE ->
            Contains(path, "/productos/") /\ ~Contains(path, "/colecciones/")
      [] OTHER -> Contains(path, "/product") \/ EndsWith(path, ".html")

Validated == rpc = "done" /\ outcome.kind = "returned"

\* C18: a url without a banned fragment is accepted by the validator exactly
\* when its path has the shape of the platform: VTEX ends in /p with the
\* trailing slashes left out, Magento and PrestaShop end in .html, Shopify
\* has /products/, WooCommerce has /product/ and not /product-category/,
\* TiendaNube has /productos/ and not /colecciones/, an unknown platform has
\* a /product... segment or ends in .html.
C18_AcceptsExactlyProductShape ==
    (Validated /\ ~ContainsAny(Lower(candidate), BANNED_FRAGMENTS))
        => (outcome.value <=> ProductShape(CandidatePath))

C18_Witness ==
    /\ Validated
    /\ platform = VTEX
    /\ candidate = "https://store.com/some-product/p/"
    /\ outcome.value = TRUE

\* the non-product fragments of the denylist as the specification lists them
LISTED_FRAGMENTS ==
    <<"/login", "/account", "/cart", "/checkout", "/wishlist", "/orders",
      "/customer", "/help">>

\* C19: for every platform the validator rejects a url that has, in any
\* letter case, one of the fragments login, account, cart, checkout,
\* wishlist, orders, customer, help.  It does not hold: BANNED_FRAGMENTS has
\* no entry for orders.
C19_RejectsListedFragments ==
    (Validated /\ ContainsAny(Lower(candidate), LISTED_FRAGMENTS))
        => outcome.value = FALSE

(***************************************************************************)
(* Properties of the classifier and of the registry of search recipes.     *)
(***************************************************************************)
\* the platforms in the order of the classifier, each with its signatures
SIGNATURES ==
    << [platform |-> VTEX, marks |-> <<"vtex", "/api/catalog_system/", "vtexassets">>],
       [platform |-> MAGENTO, marks |-> <<"magento", "mage-init", "data-mage">>],
       [platform |-> PRESTASHOP, marks |-> <<"prestashop", "jolisearch">>],
       [platform |-> SHOPIFY, marks |-> <<"cdn.shopify.com", "shopify">>],
       [platform |-> WOOCOMMERCE, marks |-> <<"woocommerce", "wp-content", "wc-add-to-cart">>],
       [platform |-> TIENDANUBE, marks |-> <<"tiendanube", "nuvemshop">>] >>

\* a signature of the n-th platform occurs in the text, in any letter case
Matches(text, n) == ContainsAny(Lower(text), SIGNATURES[n].marks)

Classified == rpc = "done" /\ Len(replies) = 1

\* C21: the classifier returns the first platform, in the order VTEX,
\* Magento, PrestaShop, Shopify, WooCommerce, TiendaNube, one of whose
\* signatures occurs in the text in any letter case, and Unknown exactly
\* when no signature of any platform occurs.
C21_FirstMatchingPlatform ==
    Classified =>
        /\ \A n \in 1..Len(SIGNATURES) :
              (Matches(replies[1].text, n)
                 /\ \A m \in 1..(n - 1) : ~Matches(replies[1].text, m))
                => platform = SIGNATURES[n].platform
        /\ platform = UNKNOWN
              <=> \A n \in 1..Len(SIGNATURES) : ~Matches(replies[1].text, n)

C21_Witness ==
    /\ Classified
    /\ replies[1].text = "cdn.Shopify.com io.VtexAssets.com"
    /\ platform = VTEX

\* no signature of any platform occurs in the text
NoSignature(text) == \A n \in 1..Len(SIGNATURES) : ~Matches(text, n)

\* the six generic searches, in their listed order
GenericSearches ==
    << base \o "/search?q=" \o call.ean,
       base \o "/buscar?q=" \o call.ean,
       base \o "/busca?q=" \o call.ean,
       base \o "/catalogsearch/result/?q=" \o call.ean,
       base \o "/?s=" \o call.ean,
       base \o "/?q=" \o call.ean >>

\* lookup_generic has read a home page that failed, was empty or has no
\* signature
HomeUnclassified ==
    /\ Generic
    /\ Len(replies) >= 1
    /\ (replies[1] = NoPage \/ NoSignature(Html(replies[1])))

RecipeCount ==
    CASE platform = VTEX -> 3
      [] platform = MAGENTO -> 1
      [] platform = PRESTASHOP -> 3
      [] platform \in {SHOPIFY, WOOCOMMERCE, TIENDANUBE} -> 2
      [] OTHER -> 6

\* the registry has been called: candidates are the urls of its recipes
Called == rpc = "registry" /\ step >= 1

\* the urls of the recipes: the right number for the platform, each a
\* fully-qualified url under the base url that carries the identifier; for
\* VTEX the exact-code query, the free-text query, then the search page;
\* for a tag that is no platform the six generic searches
RegistryShape ==
    /\ Len(candidates) = RecipeCount
    /\ \A n \in 1..Len(candidates) :
          /\ IsAbsoluteUrl(candidates[n])
          /\ StartsWith(candidates[n], base \o "/")
          /\ ~StartsWith(candidates[n], base \o "//")
          /\ Contains(candidates[n], call.ean)
    /\ platform = VTEX =>
          candidates =
            << base \o "/api/catalog_system/pub/products/search/?fq=alternateIds_Ean:" \o call.ean,
               base \o "/api/catalog_system/pub/products/search/?ft=" \o call.ean,
               base \o "/" \o call.ean \o "?_q=" \o call.ean \o "&map=ft" >>
    /\ platform = MAGENTO => candidates = <<base \o "/catalogsearch/result/?q=" \o call.ean>>
    /\ platform \notin (Platforms \ {UNKNOWN}) => candidates = GenericSearches

PassesValidation(u) == u # "" /\ OnStoreHost(u) /\ _seems_pdp(u, platform)

\* the first of the hrefs whose url, resolved against the base url, passes
\* validation; "" when there is none
RECURSIVE FirstValidOf(_)
FirstValidOf(hrefs) ==
    IF hrefs = <<>> THEN ""
    ELSE IF PassesValidation(_abs(base, Head(hrefs))) THEN _abs(base, Head(hrefs))
    ELSE FirstValidOf(Tail(hrefs))

\* what the three passes give for a page, in their order
ThreePasses(page) ==
    IF Html(page) = "" THEN ""
    ELSE IF PassesValidation(_abs(base, _find_canonical(page)))
    THEN _abs(base, _find_canonical(page))
    ELSE IF PassesValidation(_abs(base, _first_url_from_itemlist(page)))
    THEN _abs(base, _first_url_from_itemlist(page))
    ELSE FirstValidOf(page.anchors)

Extracted == rpc = "done" /\ call.base_url = "https://x.test" /\ Len(replies) = 1

\* C24: the extractor runs three passes in order and stops at the first
\* that gives a candidate: the canonical link when it is on the store's host
\* and passes validation, else the first url of an ItemList block, else the
\* first anchor in the order of the page whose url passes validation, else
\* nothing; relative and protocol-relative hrefs are resolved against the
\* base url first.  It does not hold: a url on a host that only ends with
\* the store's host is taken for one on the store's host.
C24_ThreePassesInOrder ==
    Extracted => candidate = ThreePasses(replies[1])

(***************************************************************************)
(* Properties of the normalizer.                                           *)
(***************************************************************************)
\* the ASCII digits of a text, in their order
RECURSIVE AsciiDigitsOf(_)
AsciiDigitsOf(s) ==
    IF s = "" THEN ""
    ELSE IF Head(s) \in {"0", "1", "2", "3", "4", "5", "6", "7", "8", "9"}
    THEN Head(s) \o AsciiDigitsOf(Tail(s))
    ELSE AsciiDigitsOf(Tail(s))

\* the text without one ".0" at its end
WithoutOneDotZero(s) == IF EndsWith(s, ".0") THEN SubSeq(s, 1, Len(s) - 2) ELSE s

Normalized == rpc \in {"normalized", "done"} /\ Len(cells) = 1 /\ pc = "idle"

\* C25: for every input the normalizer returns a text of ASCII digits only:
\* the digits of the stripped input in their order, leading zeros kept, after
\* one ".0" at the end is removed; None and the empty text give "".  It does
\* not hold: a decimal digit that is not ASCII stays in the result.
C25_AsciiDigitsOfInput ==
    Normalized =>
        /\ candidate = AsciiDigitsOf(candidate)
        /\ cells[1] # PyNone =>
              candidate = AsciiDigitsOf(WithoutOneDotZero(Strip(PyStr(cells[1]))))
        /\ cells[1] \in {PyNone, Str("")} => candidate = ""

\* C26: the normalizer is idempotent: the result of the result is the result
C26_Idempotent ==
    (rpc = "done" /\ Len(candidates) = 1 /\ pc = "idle" /\ call = NoCall) =>
        candidates[1] = candidate

C26_Witness ==
    /\ rpc = "done"
    /\ cells = <<Str("00779.0 ")>>
    /\ candidate = "00779"
    /\ candidates = <<"00779">>

(***************************************************************************)
(* Properties of the two upload handlers.                                  *)
(***************************************************************************)
\* the batch input is malformed: the file is not an .xlsx, the workbook
\* cannot be read, the sheet is empty or has no EAN column
Malformed(req) ==
    \/ ~ EndsWith(Lower(req.filename), ".xlsx")
    \/ ~ req.workbook.readable
    \/ req.workbook.columns = <<>>
    \/ req.workbook.data = <<>>
    \/ ~ \E n \in 1..Len(req.workbook.columns) :
            Lower(Strip(req.workbook.columns[n])) = "ean"

\* nothing of a batch exists: no job, no entry, no row, no task, no fetch
NoWorkBegun ==
    /\ pc = "idle"
    /\ PROGRESS = NoDict
    /\ RESULTS = NoDict
    /\ cells = <<>>
    /\ eans = <<>>
    /\ rows = <<>>
    /\ tasks = <<>>
    /\ done = 0
    /\ fetched = <<>>

Requested == rpc \in {"request", "done"} /\ call.handler \in {"start", "upload"}

\* C27: a malformed batch input is rejected with an error to the caller
\* before any work begins: no job is created, no progress or result entry
\* is written and no store is fetched, then or later
C27_MalformedBatchRejected ==
    (Requested /\ Malformed(call)) =>
        /\ NoWorkBegun
        /\ rpc = "done" => (answer.status = "400" /\ answer.detail # "")

C27_Witness ==
    /\ rpc = "done"
    /\ call.handler = "start"
    /\ call.filename = "lista.xlsx"
    /\ call.workbook = Sheet(<<"EAN">>, <<>>)
    /\ answer.status = "400"
    /\ NoWorkBegun

\* the batch was accepted: process_eans has its stores
Accepted == Requested /\ rpc = "done" /\ pc # "idle"

\* the stores of the form that have a slug and a url
Supplied(req) ==
    {n \in 1..Len(req.custom.slug) :
        n <= Len(req.custom.url) /\ Strip(req.custom.slug[n]) # "" /\ req.custom.url[n] # ""}

\* C29: the stores of a batch have unique slugs, and a slug collision (two
\* stores of the form with one slug, or one with the slug of a predefined
\* store) is resolved so that every predefined store and every store of the
\* form that has a slug and a url is still in the universe of the batch.  It
\* does not hold: the later store takes the place of the earlier one.
C29_EveryStoreInUniverse ==
    (Accepted /\ call.stores = <<>>) =>
        /\ \A m, n \in 1..Len(stores_map) : stores_map[m].k = stores_map[n].k => m = n
        /\ \A n \in 1..Len(STORES) : \E m \in 1..Len(stores_map) : stores_map[m] = STORES[n]
        /\ \A n \in Supplied(call) :
              \E m \in 1..Len(stores_map) : stores_map[m].v = _norm_url(call.custom.url[n])

\* the slugs the batch knows: the predefined ones and those of the form
KnownSlugs(req) ==
    {STORES[n].k : n \in 1..Len(STORES)}
        \cup {Strip(req.custom.slug[n]) : n \in Supplied(req)}

\* the known slugs the form names, or every known slug when it names none
SelectedSlugs(req) ==
    IF \E n \in 1..Len(req.stores) : req.stores[n] \in KnownSlugs(req)
    THEN {req.stores[n] : n \in 1..Len(req.stores)} \cap KnownSlugs(req)
    ELSE KnownSlugs(req)

SlugsOf(d) == {d[n].k : n \in 1..Len(d)}

\* C30: the columns of the result table are those of the selection: the known
\* stores the request names, or, when it names none or only unknown ones,
\* every predefined store and every store of the form; the selection is
\* never empty
C30_ColumnsAreTheSelection ==
    Accepted =>
        /\ stores_map # <<>>
        /\ stores = stores_map
        /\ SlugsOf(stores_map) = SelectedSlugs(call)
        /\ \A r \in 1..Len(rows) : SlugsOf(rows[r]) = {"EAN"} \cup SelectedSlugs(call)
        /\ pc = "finished" =>
              {DictGet(RESULTS, JOB).columns[n] :
                   n \in 1..Len(DictGet(RESULTS, JOB).columns)}
                  = {"EAN"} \cup SelectedSlugs(call)

C30_Witness ==
    /\ pc = "finished"
    /\ call.stores = <<"kiosco", "nada", "carrefour">>
    /\ call.custom.page
    /\ Len(rows) = 2
    /\ DictGet(RESULTS, JOB).columns = <<"EAN", "carrefour", "kiosco">>

(***************************************************************************)
(* Properties of the cells of the table.                                   *)
(***************************************************************************)
\* the lookups of the same gather, before and after the step
SameGather == tasks # <<>> /\ Len(tasks') = Len(tasks) /\ tasks'[1].ident = tasks[1].ident

\* a row is added: with the cells of lookups that have all settled, each
\* cell the result of its lookup
RowAdded ==
    /\ Len(rows') = Len(rows) + 1
    /\ pc = "gather" =>
          \A j \in 1..Len(tasks) :
              /\ tasks[j].state = "settled"
              /\ DictGet(rows'[Len(rows')], tasks[j].store) = tasks[j].result

\* C28: each cell is written once, after its lookup has settled, and a
\* lookup given up on timeout never changes a cell, a row or the progress
\* count by completing later: a settled lookup keeps its result, a row is
\* added whole and never rewritten, and the count moves only with a row
C28_CellsWrittenOnce ==
    [][/\ SameGather =>
             \A j \in 1..Len(tasks) : tasks[j].state = "settled" => tasks'[j] = tasks[j]
       /\ \A n \in 1..Len(rows) : Len(rows') >= n /\ rows'[n] = rows[n]
       /\ rows' # rows => RowAdded
       /\ done' # done => (done' = done + 1 /\ rows' # rows)
       /\ (DictHas(PROGRESS, JOB) /\ Reported'.done # Reported.done) => rows' # rows]_vars

\* the table is stored, and the cell of a lookup that timed out holds the
\* sentinel
C28_Witness ==
    /\ pc = "finished"
    /\ Len(rows) = 1
    /\ \E j \in 1..Len(tasks) :
          /\ tasks[j].how = "timeout"
          /\ DictGet(rows[1], tasks[j].store) = NOT_FOUND
          /\ DictGet(DictGet(RESULTS, JOB).data[1], tasks[j].store) = NOT_FOUND

(***************************************************************************)
(* Properties of the dispatch.                                             *)
(***************************************************************************)
\* the resolver of a slug, as the table is written in the spec
ResolverOf(slug) ==
    IF slug = "mercado_libre" THEN "lookup_meli_robusto"
    ELSE IF slug = "club_de_beneficios" THEN "lookup_club_beneficios"
    ELSE IF slug = "central_oeste" THEN "lookup_central_oeste"
    ELSE IF slug = "atomo" THEN "lookup_atomo"
    ELSE "lookup_generic"

StopsPolling(p) ==
    \/ p.status = "finished"
    \/ p.done >= (IF p.total = 0 THEN 1 ELSE p.total)

\* the last answer is a progress answer for the job on which the page stops
\* polling
PageStops == answer.status = "answered" /\ answer.id = JOB /\ StopsPolling(answer.body)

\* the step is the download of the job
Downloads == answer'.status \in {"200", "404"} /\ answer'.id = JOB

\* C32: whenever the poll of the page sees done >= total, the result of the
\* job is stored, so that the download that follows succeeds.  It does not
\* hold: the last callback reports done = total before the table is stored.
C32_DownloadAfterPollSucceeds ==
    [][(PageStops /\ Downloads) => (DictHas(RESULTS, JOB) /\ answer'.status = "200")]_vars

\* the progress entry of the job says finished
MarkedFinished == DictHas(PROGRESS, JOB) /\ DictGet(PROGRESS, JOB).status = "finished"

\* the last answer is a progress answer for the job with status finished
SawFinished ==
    answer.status = "answered" /\ answer.id = JOB /\ answer.body.status = "finished"

\* C33: a job whose status is finished has its result stored, so a download
\* requested after finished was seen is never answered 404
C33_FinishedHasResult ==
    /\ [](MarkedFinished => DictHas(RESULTS, JOB))
    /\ [][(SawFinished /\ Downloads) => answer'.status = "200"]_vars

\* the download of a finished job was answered with its table
C33_Witness ==
    /\ MarkedFinished
    /\ answer = [id |-> JOB, body |-> DictGet(RESULTS, JOB), status |-> "200"]
    /\ Len(answer.body.data) = Len(cells)

\* C34: the status of a job moves from running to finished only: once it is
\* finished no step sets it back or changes done or total
C34_FinishedIsFinal ==
    [][DictHas(PROGRESS, JOB) =>
          /\ DictHas(PROGRESS', JOB)
          /\ Reported.status \in {"running", "finished"}
          /\ Reported.status = "finished" => Reported' = Reported
          /\ Reported'.total = Reported.total]_vars

\* the job of two identifiers is finished and reported so
C34_Witness ==
    /\ pc = "finished"
    /\ MarkedFinished
    /\ Reported = [done |-> 2, total |-> 2, status |-> "finished"]

(***************************************************************************)
(* Properties of the permits.                                              *)
(***************************************************************************)
\* C35: a permit is released on every way out of a lookup (value, timeout,
\* fault): the permits held are as many as the lookups in flight, and every
\* permit is free once the row of an identifier is complete
C35_PermitsFollowLookups ==
    pc # "idle" =>
        /\ MAX_PARALLEL_PER_EAN - sem = Cardinality(RunningTasks)
        /\ (tasks = <<>> \/ GatherComplete) => sem = MAX_PARALLEL_PER_EAN
        /\ pc # "gather" => sem = MAX_PARALLEL_PER_EAN

\* the row of seven lookups is complete, one of them timed out, and every
\* permit is free
C35_Witness ==
    /\ RowBuilt
    /\ Len(tasks) = MAX_PARALLEL_PER_EAN + 1
    /\ \E j \in 1..Len(tasks) : tasks[j].how = "timeout"
    /\ \E j \in 1..Len(tasks) : tasks[j].how = "value"
    /\ sem = MAX_PARALLEL_PER_EAN

\* the lookup j waits for a permit
Waits(j) == Len(tasks) >= j /\ tasks[j].state = "waiting"

\* the lookup j has been started
Started(j) == Len(tasks) >= j /\ tasks[j].state # "waiting"

\* C36: the timeout of a lookup starts once it holds a permit: a lookup that
\* waits for a permit is never timed out, it stays waiting until it is
\* started, and with more stores than permits every waiting lookup is
\* started in the end
C36_NoTimeoutWhileWaiting ==
    /\ [][\A j \in 1..Len(tasks) :
             (Waits(j) /\ Len(tasks') = Len(tasks)) =>
                 /\ tasks'[j].state \in {"waiting", "running"}
                 /\ tasks'[j].how = "none"]_vars
    /\ [](\A j \in 1..Len(tasks) : tasks[j].how # "none" => tasks[j].state = "settled")
    /\ (\E j \in 1..Len(tasks) : Waits(j))
          ~> (tasks # <<>> /\ \A j \in 1..Len(tasks) : Started(j))

\* the seventh lookup was started after it had waited for a permit, and
\* has timed out since
C36_Witness ==
    /\ Len(tasks) = MAX_PARALLEL_PER_EAN + 1
    /\ tasks[MAX_PARALLEL_PER_EAN + 1].how = "timeout"
    /\ \A j \in 1..MAX_PARALLEL_PER_EAN : tasks[j].how = "value"

(***************************************************************************)
(* Properties of the end of a lookup.                                      *)
(***************************************************************************)
\* the steps of lookup_generic in the state machine of the spec: the home
\* page, the two catalog queries of a VTEX store, the search recipes
StepCount ==
    1 + (IF platform = VTEX THEN 2 ELSE 0)
      + Len(_search_recipes_for(platform, base, call.ean))

\* C39: every call of the generic resolver ends in a url found or in the
\* sentinel after a bounded number of requests: at most one for the home
\* page, two catalog queries, one for each search recipe of the platform and
\* one to verify the candidate, and no step is taken twice.  It does not
\* hold: a catalog answer of the wrong shape ends the call with an exception.
C39_EndsAfterBoundedFetches ==
    Generic =>
        /\ Len(fetched) = Len(replies)
        /\ Len(StepFetches) <= StepCount
        /\ \A k \in 1..Len(StepFetches) : StepFetches[k] = Plan[k]
        /\ Len(fetched) - Len(StepFetches) <= 1
        /\ Len(fetched) <= 1 + 2 + Len(_search_recipes_for(platform, base, call.ean)) + 1
        /\ rpc = "done" => outcome.kind = "returned"

\* what the tables hold under one job id
EntriesOf(job_id) ==
    <<SelectSeq(PROGRESS, LAMBDA e : e.k = job_id),
      SelectSeq(RESULTS, LAMBDA e : e.k = job_id)>>

\* the limiter, the rows and the counter of the first job, and its entries
OwnState == <<pc, eans, i, rows, done, sem, tasks, failures, EntriesOf(JOB)>>

\* C37: jobs that run at the same time are isolated: a job has its own id,
\* limiter, rows and counter, and a step of a job writes only the progress
\* entry and the result stored under its own id; the entries of every other
\* job stay as they are.
C37_JobsAreIsolated ==
    /\ [](\A n \in 1..Len(PROGRESS) : PROGRESS[n].k \in {JOB, OTHER_JOB})
    /\ [](\A n \in 1..Len(RESULTS) : RESULTS[n].k \in {JOB, OTHER_JOB})
    /\ []((pc \in {"loop", "gather", "closing"}) =>
             DictGet(PROGRESS, JOB) = [done |-> done, total |-> total, status |-> "running"])
    /\ [][\/ EntriesOf(OTHER_JOB)' = EntriesOf(OTHER_JOB)
          \/ OwnState' = OwnState]_vars
    /\ [][(EntriesOf(JOB)' # EntriesOf(JOB)) => (pc' # pc \/ done' # done)]_vars

C37_Witness ==
    /\ pc = "gather"
    /\ DictHas(RESULTS, OTHER_JOB)
    /\ ~DictHas(RESULTS, JOB)
    /\ DictGet(PROGRESS, OTHER_JOB).status = "finished"
    /\ DictGet(PROGRESS, JOB).status = "running"
    /\ PROGRESS[1].k = OTHER_JOB

\* the step is a request of a client that was answered
Answered == answer' # answer

\* the step is a download that was answered
DownloadAnswered == Answered /\ answer'.status \in {"200", "404"}

\* C38: polling and downloading only read: neither changes a progress entry
\* or a stored result; the download of a job that is unknown or not yet
\* finished is answered 404; and the downloads of a finished job all give
\* the same content.
C38_PollAndDownloadOnlyRead ==
    /\ [][Answered => UNCHANGED <<PROGRESS, RESULTS, pc, rows, done, tasks, sem>>]_vars
    /\ [][DownloadAnswered =>
             (answer'.status = "404" <=> ~(answer'.id = JOB /\ MarkedFinished))]_vars
    /\ []((answer.status = "200") =>
             /\ DictHas(RESULTS, answer.id)
             /\ answer.body = DictGet(RESULTS, answer.id)
             /\ answer.body = DataFrame(rows))
    /\ [][(answer.status = "200" /\ answer'.status = "200" /\ answer'.id = answer.id)
             => answer'.body = answer.body]_vars

\* the job is finished and stored, and the download of an id that names no
\* job was answered 404
C38_Witness ==
    /\ MarkedFinished
    /\ DictHas(RESULTS, JOB)
    /\ DictGet(RESULTS, JOB).data # <<>>
    /\ answer.status = "404"
    /\ answer.id = NO_JOB

\* the call of lookup_club_beneficios has ended
ClubDone == Club /\ rpc = "done"

\* the links of the listing that are product pages of the store, in the
\* order of the listing
RECURSIVE ListedProducts(_)
ListedProducts(hrefs) ==
    IF hrefs = <<>> THEN <<>>
    ELSE (IF ClubAccepts(ClubFull(Strip(Head(hrefs)))) /\ Strip(Head(hrefs)) # ""
                /\ ~StartsWith(Strip(Head(hrefs)), "#")
          THEN <<ClubFull(Strip(Head(hrefs)))>> ELSE <<>>)
         \o ListedProducts(Tail(hrefs))

\* the requests that read a page with the identifier in it
VerifiedAt == {k \in 2..Len(replies) : Verified(replies[k])}

\* C40: lookup_club_beneficios returns a url only when a request of that url
\* succeeded and the identifier is in the body; the candidates are tried in
\* the order of the listing; when none is verified, or the search request
\* fails, the result is the sentinel.
C40_ClubReturnsVerifiedOnly ==
    Club =>
        /\ Len(fetched) = Len(replies)
        /\ \A k \in 2..Len(fetched) :
              /\ Html(replies[1]) # ""
              /\ fetched[k] = ListedProducts(replies[1].anchors)[k - 1]
              /\ Verified(replies[k]) => (k = Len(fetched) /\ rpc = "done")
        /\ rpc = "done" => outcome.kind = "returned"
        /\ (rpc = "done" /\ outcome.value # NOT_FOUND) =>
              /\ Len(fetched) >= 2
              /\ outcome.value = fetched[Len(fetched)]
              /\ Verified(replies[Len(replies)])
        /\ (rpc = "done" /\ VerifiedAt = {}) =>
              /\ outcome.value = NOT_FOUND
              /\ Len(replies) >= 1
              /\ Html(replies[1]) # "" =>
                    Len(fetched) = 1 + Len(ListedProducts(replies[1].anchors))
              /\ Html(replies[1]) = "" => Len(fetched) = 1
        /\ rpc # "done" => outcome = NoOutcome

\* the second candidate of the listing was returned, the first one read
\* without the identifier in it
C40_Witness ==
    /\ ClubDone
    /\ Len(fetched) = 3
    /\ Html(replies[2]) # ""
    /\ ~Verified(replies[2])
    /\ outcome = Return(fetched[3])
    /\ fetched[3] = "https://clubdebeneficios.com/aceite-900ml.html"
====
